---------------------------- MODULE Spec2Model ----------------------------
(***************************************************************************)
(* A model of parts of elisa (eclipsing binary modelling):                 *)
(*                                                                         *)
(*   SpecMorph  BinarySystem.__init__ / _estimate_morphology               *)
(*              (src/engine/binary_system.py)                              *)
(*   SpecAtm    one radiance evaluation reading its atmosphere tables with *)
(*              the multithread reader (src/src/elisa/atm.py)              *)
(*   SpecAtmPar two radiance evaluations doing so at the same time         *)
(*   SpecCurve  one curve of a circular system: the coordinator, the       *)
(*              batches and the curve workers                              *)
(*              (src/src/elisa/binary_system/curves, .../utils.py)         *)
(*   SpecEcc    _update_surface_in_ecc_orbits over the orbital positions   *)
(*              (src/src/elisa/binary_system/curves/lc.py)                 *)
(*   SpecSpot   spots put into the mesh of a star, overlapped spots removed*)
(*              (src/src/elisa/base/container.py)                          *)
(*   SpecEval   BinarySystem._evaluate_spots (src/engine/binary_system.py) *)
(*   SpecRad    the temperature lookup of NaiveInterpolatedAtm.radiance    *)
(*   SpecSet    assignments to BinarySystem.eccentricity                   *)
(*   SpecJson   validate_binary_json (src/src/elisa/binary_system/utils.py)*)
(*   SpecArea   StarContainer.calculate_all_areas                          *)
(*   SpecSurf   build_surface_with_no_spots                                *)
(*              (src/src/elisa/engine/binary_system/build.py)              *)
(*   SpecLag    BinarySystem.lagrangian_points                             *)
(*   SpecRes    resolve_curve_method                                       *)
(*   SpecSw     the curve worker of a spotty asynchronous system on a batch*)
(*   SpecAtmFair  the reader threads under fair scheduling                 *)
(*   SpecRemap  the tables read, put back onto the faces (atm.py)          *)
(*   SpecNeck   the neck point of an over-contact surface (build.py)       *)
(*   SpecFit    the normalisation bounds of successive fits                *)
(*              (src/src/elisa/analytics/binary/fit.py)                    *)
(*   SpecList   component_to_list                                          *)
(*   SpecStar   the gravity_darkening property of Star (src/engine/star.py)*)
(*                                                                         *)
(* Real numbers.  Potentials are fixed-point integers, UnitsPerOne units   *)
(* to 1.0 (one unit = 2e-9), so that the tolerance PRECISSION = 1e-8 and   *)
(* differences of a few 1e-9 are both representable.  A filling factor is  *)
(* the exact fraction [n, d] = (lp[1] - Omega) / (lp[1] - lp[2]); the      *)
(* comparisons the code makes on it are made on the fraction, without      *)
(* rounding.                                                               *)
(***************************************************************************)
EXTENDS Integers, Sequences, FiniteSets, TLC

VARIABLES
    bs,           \* BinarySystem: the constructor's inputs and derived potentials
    bpc,          \* "new" | "built" | "raised": where BinarySystem.__init__ ended
    morphology,   \* BinarySystem._morphology ("unset" until assigned)
    pff,          \* BinarySystem._primary_filling_factor
    sff           \* BinarySystem._secondary_filling_factor

VARIABLES
    faces,        \* per evaluation: the per-face atmosphere table paths (atm_files)
    cpc,          \* per evaluation: where read_unique_atm_tables / the runner is
    started,      \* per evaluation: reader threads started so far
    path_queue,   \* per evaluation: Queue of (index, path) and TERMINATORs
    result_queue, \* per evaluation: Queue of (index, container)
    error_queue,  \* per evaluation: Queue of exceptions
    tpc,          \* per evaluation and thread: "off" | "get" | "check" | "read" | "done" | "died"
    targ,         \* per evaluation and thread: the item taken from path_queue
    outcome,      \* per evaluation: what read_unique_atm_tables returned or raised
    reads,        \* per evaluation and table: completed pd.read_csv calls (history)
    errlog,       \* per evaluation: every error recorded, in order (history)
    late          \* per evaluation and thread: reads completed after the first error (history)

VARIABLES
    cmode,          \* "off" | "sync" | "spotty": which curve is being computed
    phases,         \* the input phase array (positions are identified by their phase)
    coord,          \* where the coordinator is: "off" | "new" | "prepared" | "dispatched" | "assembled" | "raised"
    initial_system, \* the OrbitalPositionContainer handed to every batch
    kwargs,         \* keys of the kwargs dictionary handed to every batch
    wpc,            \* per batch: "off" | "ready" | "loop" | "done" | "raised"
    widx,           \* per batch: pos_idx of the next position (1-based)
    wcurves,        \* per batch: the worker's curves dictionary
    wrad,           \* per batch: the worker's normal_radiance / ld_cfs (0 is None)
    werr,           \* per batch: the exception the worker raised
    curve,          \* what the coordinator returned
    cerror,         \* what the coordinator raised
    calls,          \* per build step and prep_surface_params: calls so far (history)
    build_distance, \* components_distance of every build call so far (history)
    loopops,        \* every call made inside a phase loop (history)
    processed,      \* phases whose loop body has run (history)
    done_order      \* batches in the order their workers returned (history)

VARIABLES
    ecc_system,     \* eccentric orbit: per surface attribute, where it was last computed
    ecc_idx,        \* eccentric orbit: positions handled so far (-1: no eccentric curve)
    ecc_test        \* eccentric orbit: new_geometry_test of the last position (history)

morphVars == <<bs, bpc, morphology, pff, sff>>

VARIABLES
    spots_input,    \* the star's spot list as given (history)
    star_spots,     \* StarContainer.spots: spot index -> spot
    vertices_map,   \* per surface point: the index of the spot owning it, -1 for the star
    spc,            \* "off" | "new" | "meshed" | "built" | "raised"
    spot_error,     \* message of the error raised
    raise_flag      \* _raise of the last remove_overlaped_spots_by_spot_index call

VARIABLES
    ev_morphology,  \* _evaluate_spots: the system's morphology
    ev_none_order,  \* what comparing a float with None does: "TypeError" | "unordered"
    ev_input,       \* per component: for each spot, what solving its points gives
    ev_spots,       \* per component: the spot indices still in its spot list
    ev_pc,          \* [at, component, spot]: at is "off" | "loop" | "done" | "raised"
    ev_omitted,     \* the spots reported as omitted (diagnostics)
    ev_error        \* the exception that left _evaluate_spots

VARIABLES
    rad_temperature, \* radiance: the temperature of every face
    rad_pc,          \* "off" | "new" | "returned" | "raised"
    rad_result       \* per face, the tables and the weight the radiance was interpolated with

VARIABLES
    sys_eccentricity, \* BinarySystem._eccentricity, in hundredths
    set_value,        \* the value of the last assignment to eccentricity
    set_before,       \* _eccentricity before the last assignment
    set_raised,       \* whether the last assignment raised
    set_calls         \* number of assignments made

VARIABLES
    vj_data,   \* validate_binary_json: which parameters the json carries
    vj_result  \* "off" | "new" | "True" | "ValidationError" | "YouHaveNoIdeaError"

VARIABLES
    ar_faces,  \* calculate_all_areas: the faces of the star, each <<base, height>>
    ar_areas,  \* the star's areas
    ar_spots,  \* the star's spots in index order, each [faces, areas]
    ar_module, \* the attribute areas of the module elisa.base.spot
    ar_pc      \* "off" | "built" | "done"

VARIABLES
    sf_morphology, \* build_surface_with_no_spots: morphology of the system
    sf_points,     \* where each base point lies: "in" | "xy" | "xz" | "x"
    sf_hull,       \* the triangles the triangulation of the base points gives
    sf_base_faces, \* base_symmetry_faces
    sf_faces,      \* faces
    sf_fsv,        \* face_symmetry_vector
    sf_pc          \* "off" | "mesh" | "surface"

VARIABLES
    lg_d,          \* lagrangian_points: periastron distance, on an integer grid
    lg_roots,      \* the roots of potential_dx: behind the primary, between, behind the secondary
    lg_mass_ratio, \* "below_one" | "one_or_above"
    lg_i,          \* index in xs of the next x_val
    lg_points,     \* points: the rounded solutions kept
    lg_lagrange,   \* lagrange: the solutions kept
    lg_result,     \* the list returned
    lg_pc          \* "off" | "scan" | "returned"

VARIABLES
    rs_system, \* resolve_curve_method: what the method reads of the system
    rs_result  \* "off" | "new" | "fn_array[0]" .. "fn_array[3]" | "NotImplementedError"

VARIABLES
    sw_batch,           \* spotty asynchronous worker: motion_batch, the positions of the batch
    sw_idx,             \* pos_idx of the next pass of its loop
    sw_system,          \* initial_system: position and, per component, where it was last built
    sw_normal_radiance, \* normal_radiance / ld_cfs, named by the position computed at (0 is None)
    sw_attached,        \* per pass: what was rebuilt and what on_pos carried (history)
    sw_pc               \* "off" | "loop" | "returned" | "raised"

VARIABLES
    rm_fpaths,     \* remapping: the table path of every face
    rm_models,     \* the containers read, in the order the threads delivered them
    rm_models_arr, \* result of remap_unique_atm_container_to_origin
    rm_matrix,     \* result of remap_passbanded_unique_atm_to_matrix
    rm_pc          \* "off" | "read" | "remapped"

VARIABLES
    nk_component, \* over-contact surface build: the component argument
    nk_points,    \* per component: the x coordinates of its points
    nk_idx,       \* index in the component list of the next component (0: no build)
    nk_neck       \* per component: the x of the point added before triangulation

VARIABLES
    NORMALIZATION_MAP, \* fit.py: the module's map parameter -> (min, max)
    fit_x0,            \* the x0 of the last fit initialised
    fit_boundaries,    \* what serialize_param_boundaries returned for it
    fit_calls          \* fits initialised so far in the process (-1: none will be)

VARIABLES
    cl_components,     \* the component arguments passed to component_to_list, in order
    cl_results         \* what each call returned (<<"ValueError">>: it raised)

VARIABLES
    st_backward_radius,     \* Star._backward_radius (<<>>: None, <<v>>: the value v)
    st_gravity_darkening,   \* Star._gravity_darkening
    st_gravity_darkenings,  \* Star._gravity_darkenings, the attribute the setter writes
    st_accepted,            \* the last value the gravity_darkening setter accepted
    st_read,                \* what the last read of gravity_darkening returned
    st_outcome              \* the last operation on the star and how it ended

eccVars == <<ecc_system, ecc_idx, ecc_test>>

starVars == <<st_backward_radius, st_gravity_darkening, st_gravity_darkenings, st_accepted, st_read, st_outcome>>

listVars == <<cl_components, cl_results>>

fitVars == <<NORMALIZATION_MAP, fit_x0, fit_boundaries, fit_calls>>

neckVars == <<nk_component, nk_points, nk_idx, nk_neck>>

remapVars == <<rm_fpaths, rm_models, rm_models_arr, rm_matrix, rm_pc>>

swVars == <<sw_batch, sw_idx, sw_system, sw_normal_radiance, sw_attached, sw_pc>>

resVars == <<rs_system, rs_result>>

lagVars == <<lg_d, lg_roots, lg_mass_ratio, lg_i, lg_points, lg_lagrange, lg_result, lg_pc>>

surfVars == <<sf_morphology, sf_points, sf_hull, sf_base_faces, sf_faces, sf_fsv, sf_pc>>

areaVars == <<ar_faces, ar_areas, ar_spots, ar_module, ar_pc>>

jsonVars == <<vj_data, vj_result>>

setVars == <<sys_eccentricity, set_value, set_before, set_raised, set_calls>>

radVars == <<rad_temperature, rad_pc, rad_result>>

evalVars == <<ev_morphology, ev_none_order, ev_input, ev_spots, ev_pc, ev_omitted, ev_error>>

spotVars == <<spots_input, star_spots, vertices_map, spc, spot_error, raise_flag>>

\* The state of the parts modelled after the curve workers.
extVars == <<eccVars, spotVars, evalVars, radVars, setVars, jsonVars, areaVars, surfVars, lagVars, resVars, swVars, remapVars, neckVars, fitVars, listVars, starVars>>

atmVars == <<faces, cpc, started, path_queue, result_queue, error_queue, tpc, targ,
             outcome, reads, errlog, late>>

curveVars == <<cmode, phases, coord, initial_system, kwargs, wpc, widx, wcurves, wrad,
               werr, curve, cerror, calls, build_distance, loopops, processed,
               done_order>>

vars == <<bs, bpc, morphology, pff, sff,
          cmode, phases, coord, initial_system, kwargs, wpc, widx, wcurves, wrad,
          werr, curve, cerror, calls, build_distance, loopops, processed, done_order,
          ecc_system, ecc_idx, ecc_test,
          spots_input, star_spots, vertices_map, spc, spot_error, raise_flag,
          ev_morphology, ev_none_order, ev_input, ev_spots, ev_pc, ev_omitted, ev_error,
          rad_temperature, rad_pc, rad_result,
          st_backward_radius, st_gravity_darkening, st_gravity_darkenings, st_accepted, st_read, st_outcome,
          cl_components, cl_results,
          NORMALIZATION_MAP, fit_x0, fit_boundaries, fit_calls,
          nk_component, nk_points, nk_idx, nk_neck,
          rm_fpaths, rm_models, rm_models_arr, rm_matrix, rm_pc,
          sw_batch, sw_idx, sw_system, sw_normal_radiance, sw_attached, sw_pc,
          rs_system, rs_result,
          lg_d, lg_roots, lg_mass_ratio, lg_i, lg_points, lg_lagrange, lg_result, lg_pc,
          sf_morphology, sf_points, sf_hull, sf_base_faces, sf_faces, sf_fsv, sf_pc,
          ar_faces, ar_areas, ar_spots, ar_module, ar_pc,
          vj_data, vj_result,
          sys_eccentricity, set_value, set_before, set_raised, set_calls,
          faces, cpc, started, path_queue, result_queue, error_queue, tpc, targ,
          outcome, reads, errlog, late>>

---------------------------------------------------------------------------
(* Numbers *)

\* Fixed-point scale: units per 1.0.
UnitsPerOne == 5 * 100000000

\* PRECISSION = 1e-8 = 1 / PrecDen.
PrecDen == 100000000

\* Offsets (in units) enumerated on each side of a reference potential.
MaxNear == 6

Abs(x) == IF x < 0 THEN -x ELSE x

\* n/d < PRECISSION, for d > 0  (n * PrecDen < d, computed without overflow).
FracLtPrec(n, d) == n < (d + PrecDen - 1) \div PrecDen

\* n/d > PRECISSION, for d > 0  (n * PrecDen > d).
FracGtPrec(n, d) == n > d \div PrecDen

---------------------------------------------------------------------------
(* BinarySystem: inputs *)

\* The systems constructed: mass ratio, synchronicities and eccentricity (in
\* tenths), with the potentials the numerical solvers return for them:
\* lp1, lp2 = libration_potentials()[1], [2] (Omega at L1, L2), crit1, crit2 =
\* critical_potential("primary"), ("secondary") at periastron.
SystemCases ==
    { [q |-> 5,  F1 |-> 10, F2 |-> 10, ecc |-> 0,
       lp1 |-> 1437922316, lp2 |-> 1288630134,
       crit1 |-> 1437922316, crit2 |-> 1437922316],
      [q |-> 10, F1 |-> 10, F2 |-> 10, ecc |-> 0,
       lp1 |-> 1875000000, lp2 |-> 1603398112,
       crit1 |-> 1875000000, crit2 |-> 1875000000],
      [q |-> 5,  F1 |-> 15, F2 |-> 12, ecc |-> 0,
       lp1 |-> 1437922316, lp2 |-> 1288630134,
       crit1 |-> 1579819924, crit2 |-> 1467543205],
      [q |-> 5,  F1 |-> 15, F2 |-> 12, ecc |-> 3,
       lp1 |-> 1437922316, lp2 |-> 1288630134,
       crit1 |-> 2013788893, crit2 |-> 1949070363] }

\* `synchronicity == 1 and ... and eccentricity == 0.0`
IsSyncCircular(c) == c.F1 = 10 /\ c.F2 = 10 /\ c.ecc = 0

\* Numerators lp1 - Omega tried for a synchronous circular system: around 0
\* (the Roche lobe), well inside the lobe, between the lobes, around the
\* outer critical surface and beyond it.
SyncOffsets(c) ==
    LET D == c.lp1 - c.lp2
    IN  (-MaxNear .. MaxNear)
          \cup { -(D \div 2), D \div 2, (D \div 2) + 3, D - 1, D, D + MaxNear }

\* Differences Omega - critical potential tried for the other systems.
AsyncOffsets == (-MaxNear .. MaxNear) \cup { -10000000, 10000000 }

SyncSystems(c) ==
    { [case |-> c, Omega1 |-> c.lp1 - n1, Omega2 |-> c.lp1 - n2] :
        n1 \in SyncOffsets(c), n2 \in SyncOffsets(c) }

AsyncSystems(c) ==
    { [case |-> c, Omega1 |-> c.crit1 + k1, Omega2 |-> c.crit2 + k2] :
        k1 \in AsyncOffsets, k2 \in AsyncOffsets }

Systems ==
    UNION { IF IsSyncCircular(c) THEN SyncSystems(c) ELSE AsyncSystems(c) :
            c \in SystemCases }

---------------------------------------------------------------------------
(* BinarySystem._estimate_morphology *)

NoFactor == [set |-> FALSE, n |-> 0, d |-> 1]

\* (lp[1] - surface_potential) / (lp[1] - lp[2])
filling_factor(c, Omega) == [set |-> TRUE, n |-> c.lp1 - Omega, d |-> c.lp1 - c.lp2]

GtZero(f) == f.n > 0
LtZero(f) == f.n < 0
LtOne(f)  == f.n < f.d
GtOne(f)  == f.n > f.d
AbsLtPrec(f) == FracLtPrec(Abs(f.n), f.d)

\* ((1 > sff > 0) or (1 > pff > 0)) and (pff - sff > PRECISSION)
UnequalContact(p, s) ==
    /\ (LtOne(s) /\ GtZero(s)) \/ (LtOne(p) /\ GtZero(p))
    /\ FracGtPrec(p.n - s.n, p.d)

\* pff > 1 or sff > 1
TooLow(p, s) == GtOne(p) \/ GtOne(s)

\* (abs(pff) < PRECISSION and sff < 0) or (pff < 0 and abs(sff) < PRECISSION)
SemiDetachedTest(p, s) ==
    \/ AbsLtPrec(p) /\ LtZero(s)
    \/ LtZero(p) /\ AbsLtPrec(s)

\* pff < 0 and sff < 0
DetachedTest(p, s) == LtZero(p) /\ LtZero(s)

\* A variant that leaves the outer critical surface out: 1 > pff > 0
OverContactTest_strict(p) == LtOne(p) /\ GtZero(p)

\* 1 >= pff > 0
OverContactTest(p) == ~GtOne(p) /\ GtZero(p)

\* abs(Omega1 - crit1) < PRECISSION and abs(Omega2 - crit2) < PRECISSION
DoubleContactTest(s) ==
    /\ FracLtPrec(Abs(s.Omega1 - s.case.crit1), UnitsPerOne)
    /\ FracLtPrec(Abs(s.Omega2 - s.case.crit2), UnitsPerOne)

\* Omega1 > crit1 and Omega2 > crit2
AsyncDetachedTest(s) == s.Omega1 > s.case.crit1 /\ s.Omega2 > s.case.crit2

Returned(v) == [raised |-> FALSE, value |-> v]
Raised      == [raised |-> TRUE,  value |-> "ValueError"]

\* The classifier: what it returns ("None" when the if/elif chain falls
\* through and the function ends without a return) or that it raises.
estimate_morphology(s) ==
    IF IsSyncCircular(s.case)
    THEN LET p == filling_factor(s.case, s.Omega1)
             q == filling_factor(s.case, s.Omega2)
         IN  IF UnequalContact(p, q) THEN Raised
             ELSE IF TooLow(p, q) THEN Raised
             ELSE IF SemiDetachedTest(p, q) THEN Returned("semi-detached")
             ELSE IF DetachedTest(p, q) THEN Returned("detached")
             ELSE IF OverContactTest(p) THEN Returned("over-contact")
             ELSE IF TooLow(p, q) THEN Raised
             ELSE Returned("None")
    ELSE IF DoubleContactTest(s) THEN Returned("double-contact")
         ELSE IF AsyncDetachedTest(s) THEN Returned("detached")
         ELSE Raised

\* The filling factors the classifier stores before it classifies.
stored_factor(s, Omega) ==
    IF IsSyncCircular(s.case) THEN filling_factor(s.case, Omega) ELSE NoFactor

---------------------------------------------------------------------------
(* BinarySystem.__init__ *)

MorphInit ==
    /\ bs \in Systems
    /\ bpc = "new"
    /\ morphology = "unset"
    /\ pff = NoFactor
    /\ sff = NoFactor

\* __init__: the parameters are valid, the orbit is initialised, then
\* `self._morphology = self._estimate_morphology()`; no spots to evaluate.
Construct ==
    /\ bpc = "new"
    /\ LET r == estimate_morphology(bs)
       IN  /\ pff' = stored_factor(bs, bs.Omega1)
           /\ sff' = stored_factor(bs, bs.Omega2)
           /\ IF r.raised
              THEN bpc' = "raised" /\ morphology' = morphology
              ELSE bpc' = "built" /\ morphology' = r.value
    /\ UNCHANGED bs
    /\ UNCHANGED atmVars
    /\ UNCHANGED curveVars
    /\ UNCHANGED extVars

\* No system under construction (the other specifications).
MorphIdle ==
    /\ bs = [case |-> [q |-> 5,  F1 |-> 10, F2 |-> 10, ecc |-> 0,
                       lp1 |-> 1437922316, lp2 |-> 1288630134,
                       crit1 |-> 1437922316, crit2 |-> 1437922316],
             Omega1 |-> 1437922316, Omega2 |-> 1437922316]
    /\ bpc = "off"
    /\ morphology = "unset"
    /\ pff = NoFactor
    /\ sff = NoFactor

---------------------------------------------------------------------------
(* Atmosphere tables: read_unique_atm_tables and the multithread reader *)

\* config.NUMBER_OF_THREADS
NThreads == 2

\* The longest per-face list of table paths an evaluation is given.
MaxFaces == 3

Threads == 1 .. NThreads

\* The atmosphere table files.
Tables == {"ck_a", "ck_b", "ck_c"}

\* The radiance evaluations (one per worker evaluating radiance).
Evals == {"w1", "w2"}

Range(f) == { f[i] : i \in DOMAIN f }

FaceLists == UNION { [1 .. n -> Tables] : n \in 1 .. MaxFaces }

TERMINATOR == [index |-> -1, path |-> "TERMINATOR"]

NoItem == [index |-> -1, path |-> "none"]

\* The sequences that list every element of S once.
Orderings(S) ==
    { q \in [1 .. Cardinality(S) -> S] : \A i, j \in DOMAIN q : q[i] = q[j] => i = j }

\* A variant that hands the reader the per-face list itself, repeats included.
enumerate_fpaths_raw(fpaths) == { fpaths }

\* unique_atm_fpaths: `fpaths_set = set(fpaths)`; the runner enumerates it,
\* in the set's iteration order (any order).
enumerate_fpaths(fpaths) == Orderings(Range(fpaths))

\* unique_atm_fpaths: key -> the indices of fpaths where it occurs (0-based).
fpaths_map(fpaths) ==
    [key \in Range(fpaths) |-> { i - 1 : i \in { j \in DOMAIN fpaths : fpaths[j] = key } }]

\* A variant of the first loop that leaves the last path out.
PathItems_short(order) ==
    [i \in 1 .. (Len(order) - 1) |-> [index |-> i - 1, path |-> order[i]]]

\* The runner's first loop: (index, fpath) for index, fpath in enumerate(fpaths).
PathItems(order) == [i \in DOMAIN order |-> [index |-> i - 1, path |-> order[i]]]

\* A variant that queues one TERMINATOR for all the threads.
Terminators_one == <<TERMINATOR>>

\* The runner's loop of path_queue.put("TERMINATOR").
Terminators == [i \in 1 .. NThreads |-> TERMINATOR]

\* A variant of the reader's test that never sees the error queue.
ErrorSeen_never(q) == FALSE

\* `not error_queue.empty()`
ErrorSeen(q) == q # <<>>

NoOutcome == [kind |-> "none", error |-> "none", models |-> {}]

AtmInit(running) ==
    /\ faces \in [Evals -> FaceLists]
    /\ \A e \in Evals : e \notin running => faces[e] = <<"ck_a">>
    /\ cpc = [e \in Evals |-> IF e \in running THEN "idle" ELSE "off"]
    /\ started = [e \in Evals |-> 0]
    /\ path_queue = [e \in Evals |-> <<>>]
    /\ result_queue = [e \in Evals |-> <<>>]
    /\ error_queue = [e \in Evals |-> <<>>]
    /\ tpc = [e \in Evals |-> [t \in Threads |-> "off"]]
    /\ targ = [e \in Evals |-> [t \in Threads |-> NoItem]]
    /\ outcome = [e \in Evals |-> NoOutcome]
    /\ reads = [e \in Evals |-> [tab \in Tables |-> 0]]
    /\ errlog = [e \in Evals |-> <<>>]
    /\ late = [e \in Evals |-> [t \in Threads |-> 0]]

\* No radiance evaluation (the other specifications).
AtmIdle ==
    /\ faces = [e \in Evals |-> <<"ck_a">>]
    /\ cpc = [e \in Evals |-> "off"]
    /\ started = [e \in Evals |-> 0]
    /\ path_queue = [e \in Evals |-> <<>>]
    /\ result_queue = [e \in Evals |-> <<>>]
    /\ error_queue = [e \in Evals |-> <<>>]
    /\ tpc = [e \in Evals |-> [t \in Threads |-> "off"]]
    /\ targ = [e \in Evals |-> [t \in Threads |-> NoItem]]
    /\ outcome = [e \in Evals |-> NoOutcome]
    /\ reads = [e \in Evals |-> [tab \in Tables |-> 0]]
    /\ errlog = [e \in Evals |-> <<>>]
    /\ late = [e \in Evals |-> [t \in Threads |-> 0]]

\* read_unique_atm_tables up to the runner's thread start: the unique paths
\* are enumerated; a path that is no file raises FileNotFoundError out of the
\* runner (no thread was started, error_queue is empty); otherwise every
\* (index, path) and then NUMBER_OF_THREADS TERMINATORs are queued (the
\* queue's maxsize is their number, so no put blocks).
ReadUniqueTables(e) ==
    /\ cpc[e] = "idle"
    /\ \E order \in enumerate_fpaths(faces[e]), all_files \in BOOLEAN :
          IF all_files
          THEN /\ path_queue' = [path_queue EXCEPT ![e] = PathItems(order) \o Terminators]
               /\ cpc' = [cpc EXCEPT ![e] = "start"]
               /\ outcome' = outcome
          ELSE /\ path_queue' = path_queue
               /\ cpc' = [cpc EXCEPT ![e] = "raised"]
               /\ outcome' = [outcome EXCEPT ![e] =
                                [kind |-> "raised", error |-> "FileNotFoundError", models |-> {}]]
    /\ UNCHANGED <<faces, started, result_queue, error_queue, tpc, targ, reads, errlog, late>>
    /\ UNCHANGED morphVars
    /\ UNCHANGED curveVars
    /\ UNCHANGED extVars

\* The runner's second loop: Thread(...).start(), one thread at a time, while
\* the threads already started run.
StartThread(e) ==
    /\ cpc[e] = "start"
    /\ started' = [started EXCEPT ![e] = @ + 1]
    /\ tpc' = [tpc EXCEPT ![e][started[e] + 1] = "get"]
    /\ cpc' = [cpc EXCEPT ![e] = IF started[e] + 1 = NThreads THEN "join" ELSE "start"]
    /\ UNCHANGED <<faces, path_queue, result_queue, error_queue, targ, outcome, reads,
                   errlog, late>>
    /\ UNCHANGED morphVars
    /\ UNCHANGED curveVars
    /\ UNCHANGED extVars

\* multithread_atm_tables_reader: `args = path_queue.get(timeout=1)`; a
\* TERMINATOR ends the thread; an empty queue raises queue.Empty in it.
Get(e, t) ==
    /\ tpc[e][t] = "get"
    /\ IF path_queue[e] = <<>>
       THEN /\ tpc' = [tpc EXCEPT ![e][t] = "died"]
            /\ UNCHANGED <<path_queue, targ>>
       ELSE /\ path_queue' = [path_queue EXCEPT ![e] = Tail(@)]
            /\ targ' = [targ EXCEPT ![e][t] = Head(path_queue[e])]
            /\ tpc' = [tpc EXCEPT ![e][t] =
                         IF Head(path_queue[e]) = TERMINATOR THEN "done" ELSE "check"]
    /\ UNCHANGED <<faces, cpc, started, result_queue, error_queue, outcome, reads,
                   errlog, late>>
    /\ UNCHANGED morphVars
    /\ UNCHANGED curveVars
    /\ UNCHANGED extVars

\* multithread_atm_tables_reader: `if not error_queue.empty(): break`.
\* (The runner queues no path that is None: os.path.isfile(None) raises.)
Check(e, t) ==
    /\ tpc[e][t] = "check"
    /\ tpc' = [tpc EXCEPT ![e][t] = IF ErrorSeen(error_queue[e]) THEN "done" ELSE "read"]
    /\ UNCHANGED <<faces, cpc, started, path_queue, result_queue, error_queue, targ,
                   outcome, reads, errlog, late>>
    /\ UNCHANGED morphVars
    /\ UNCHANGED curveVars
    /\ UNCHANGED extVars

\* multithread_atm_tables_reader: the try block.  The table is parsed and
\* read and (index, container) is put on result_queue, or an exception is
\* put on error_queue and the thread ends.
Read(e, t) ==
    /\ tpc[e][t] = "read"
    /\ \E ok \in BOOLEAN :
          IF ok
          THEN /\ result_queue' = [result_queue EXCEPT ![e] = Append(@, targ[e][t])]
               /\ reads' = [reads EXCEPT ![e][targ[e][t].path] = @ + 1]
               /\ late' = [late EXCEPT ![e][t] = IF errlog[e] # <<>> THEN @ + 1 ELSE @]
               /\ tpc' = [tpc EXCEPT ![e][t] = "get"]
               /\ UNCHANGED <<error_queue, errlog>>
          ELSE /\ error_queue' = [error_queue EXCEPT ![e] = Append(@, targ[e][t].path)]
               /\ errlog' = [errlog EXCEPT ![e] = Append(@, targ[e][t].path)]
               /\ tpc' = [tpc EXCEPT ![e][t] = "done"]
               /\ UNCHANGED <<result_queue, reads, late>>
    /\ UNCHANGED <<faces, cpc, started, path_queue, targ, outcome>>
    /\ UNCHANGED morphVars
    /\ UNCHANGED curveVars
    /\ UNCHANGED extVars

ThreadEnded(e, t) == tpc[e][t] \in {"done", "died"}

\* The runner's joins and its finally block, then read_unique_atm_tables'
\* `models = [qval[1] for qval in IterableQueue(result_queue) ...]`.
Join(e) ==
    /\ cpc[e] = "join"
    /\ \A t \in Threads : ThreadEnded(e, t)
    /\ IF error_queue[e] # <<>>
       THEN /\ cpc' = [cpc EXCEPT ![e] = "raised"]
            /\ outcome' = [outcome EXCEPT ![e] =
                             [kind |-> "raised", error |-> Head(error_queue[e]), models |-> {}]]
            /\ error_queue' = [error_queue EXCEPT ![e] = Tail(@)]
            /\ UNCHANGED result_queue
       ELSE /\ cpc' = [cpc EXCEPT ![e] = "returned"]
            /\ outcome' = [outcome EXCEPT ![e] =
                             [kind |-> "returned", error |-> "none",
                              models |-> { result_queue[e][i].path : i \in DOMAIN result_queue[e] }]]
            /\ result_queue' = [result_queue EXCEPT ![e] = <<>>]
            /\ UNCHANGED error_queue
    /\ UNCHANGED <<faces, started, path_queue, tpc, targ, reads, errlog, late>>
    /\ UNCHANGED morphVars
    /\ UNCHANGED curveVars
    /\ UNCHANGED extVars
---------------------------------------------------------------------------
(* Curves: the coordinator, the dispatch of batches and the curve workers *)

NUMBER_OF_PROCESSES == 2
MaxPhases == 3

Batches == 1..NUMBER_OF_PROCESSES
PhaseArrays ==
    UNION { { s \in [1..n -> 1..MaxPhases] : \A i, j \in 1..n : s[i] = s[j] => i = j }
            : n \in 1..MaxPhases }
crv_labels == {"B", "V"}
Components == {"primary", "secondary"}

Min(a, b) == IF a < b THEN a ELSE b
CountIn(ops, op) == Cardinality({ i \in DOMAIN ops : ops[i] = op })

\* OrbitalPositionContainer.build_from_points and .build: the steps called.
build_from_points_steps ==
    <<"build_faces", "build_surface_areas", "build_faces_orientation",
      "build_surface_gravity", "build_temperature_distribution">>
build_steps == <<"build_mesh">> \o build_from_points_steps

Counted == Range(build_steps) \cup {"prep_surface_params"}
Called(ops) == [op \in Counted |-> calls[op] + CountIn(ops, op)]

\* elisa.utils.is_empty on an array: it has no element.
is_empty(value) == Len(value) = 0

component_to_list(component) ==
    IF component \in {"all", "both"} THEN <<"primary", "secondary">>
    ELSE IF component \in {"primary", "secondary"} THEN <<component>>
    ELSE IF component = "None" THEN <<>>     \* is_empty(None)
    ELSE <<"ValueError">>

\* The calls move_sys_onpos makes, and the container it returns: with on_copy
\* the supplied system is copied first and is itself not affected.
move_sys_onpos_ops ==
    <<"copy", "set_on_position_params", "flatt_it", "apply_rotation", "apply_darkside_filter">>
move_sys_onpos(system, orbital_position) == [system EXCEPT !.position = orbital_position]

\* The calls of one pass of the phase loop of produce_circ_sync_curves_mp.
sync_position_ops_rebuild ==
    build_steps \o move_sys_onpos_ops \o <<"compute_surface_coverage", "curves_fn">>
sync_position_ops ==
    move_sys_onpos_ops \o <<"compute_surface_coverage", "curves_fn">>

\* The calls of one pass of the phase loop of produce_circ_spotty_async_curves_mp.
spotty_position_ops(require_build) ==
    <<"set_on_position_params", "set_time", "assign_spot_longitudes", "add_spots_to_mesh">>
    \o build_from_points_steps \o move_sys_onpos_ops
    \o (IF require_build # "None" THEN <<"prep_surface_params">> ELSE <<"setattr">>)
    \o <<"compute_surface_coverage", "curves_fn">>

\* curves_fn(curves, pos_idx, crv_labels, on_pos): the flux of every label at
\* the position of on_pos is stored at pos_idx.
curves_fn(curves, pos_idx, on_pos) ==
    [key \in crv_labels |-> [curves[key] EXCEPT ![pos_idx] = <<key, on_pos.position>>]]

\* np.zeros / np.empty of the batch's shape for every label.
blank_curves(n) == [key \in crv_labels |-> [i \in 1..n |-> <<"", 0>>]]

\* manage_observations: the positions are split into NUMBER_OF_PROCESSES
\* batches of consecutive positions.
batch_size(n) == (n + NUMBER_OF_PROCESSES - 1) \div NUMBER_OF_PROCESSES
n_batches(n) == (n + batch_size(n) - 1) \div batch_size(n)
batch(position, b) ==
    SubSeq(position, (b - 1) * batch_size(Len(position)) + 1,
           Min(b * batch_size(Len(position)), Len(position)))

hstack(a, b) == a \o b

RECURSIVE renormalize_loop(_, _, _)
renormalize_loop(placeholder, result, i) ==
    IF i > Len(result) THEN placeholder
    ELSE renormalize_loop(
            [passband \in DOMAIN placeholder |->
                IF is_empty(placeholder[passband]) THEN result[i][passband]
                ELSE hstack(placeholder[passband], result[i][passband])],
            result, i + 1)

RECURSIVE renormalize_loop_prepend(_, _, _)
renormalize_loop_prepend(placeholder, result, i) ==
    IF i > Len(result) THEN placeholder
    ELSE renormalize_loop_prepend(
            [passband \in DOMAIN placeholder |->
                IF is_empty(placeholder[passband]) THEN result[i][passband]
                ELSE hstack(result[i][passband], placeholder[passband])],
            result, i + 1)

renormalize_async_result_prepend(result) ==
    renormalize_loop_prepend([key \in DOMAIN result[Len(result)] |-> <<>>], result, 1)

renormalize_async_result(result) ==
    renormalize_loop([key \in DOMAIN result[Len(result)] |-> <<>>], result, 1)

NoCurve == [key \in crv_labels |-> <<>>]
NewContainer == [position |-> 0,
                 surface |-> [c \in Components |-> "none"],
                 normal_radiance |-> FALSE]

CurveInit ==
    /\ cmode \in {"sync", "spotty"}
    /\ phases \in PhaseArrays
    /\ coord = "new"
    /\ initial_system = NewContainer
    /\ kwargs = {}
    /\ wpc = [b \in Batches |-> "off"]
    /\ widx = [b \in Batches |-> 1]
    /\ wcurves = [b \in Batches |-> NoCurve]
    /\ wrad = [b \in Batches |-> 0]
    /\ werr = [b \in Batches |-> "none"]
    /\ curve = NoCurve
    /\ cerror = "none"
    /\ calls = [op \in Counted |-> 0]
    /\ build_distance = {}
    /\ loopops = {}
    /\ processed = {}
    /\ done_order = <<>>

\* No curve is computed (the other specifications).
CurveIdle ==
    /\ cmode = "off"
    /\ phases = <<>>
    /\ coord = "off"
    /\ initial_system = NewContainer
    /\ kwargs = {}
    /\ wpc = [b \in Batches |-> "off"]
    /\ widx = [b \in Batches |-> 1]
    /\ wcurves = [b \in Batches |-> NoCurve]
    /\ wrad = [b \in Batches |-> 0]
    /\ werr = [b \in Batches |-> "none"]
    /\ curve = NoCurve
    /\ cerror = "none"
    /\ calls = [op \in Counted |-> 0]
    /\ build_distance = {}
    /\ loopops = {}
    /\ processed = {}
    /\ done_order = <<>>

\* manage_observations up to the start of the workers: one kwargs dictionary
\* and the fn_args are handed to the worker of every batch.
Dispatch(keys) ==
    /\ kwargs' = keys
    /\ wpc' = [b \in Batches |-> IF b <= n_batches(Len(phases)) THEN "ready" ELSE "off"]
    /\ coord' = "dispatched"

\* compute_circular_synchronous_lightcurve, first statement: prep_initial_system
\* builds the container at components_distance = 1.0.
PrepInitialSystem ==
    /\ cmode = "sync" /\ coord = "new"
    /\ initial_system' = [initial_system EXCEPT !.surface = [c \in Components |-> "built"]]
    /\ calls' = Called(build_steps)
    /\ build_distance' = build_distance \cup {1}
    /\ coord' = "prepared"
    /\ UNCHANGED <<cmode, phases, kwargs, wpc, widx, wcurves, wrad, werr, curve, cerror,
                   loopops, processed, done_order>>
    /\ UNCHANGED <<morphVars, atmVars>>
    /\ UNCHANGED extVars

\* produce_circ_sync_curves: prep_surface_params on the initial system, then
\* manage_observations with the kwargs left after "phases" was popped.
ProduceCircSyncCurves ==
    /\ cmode = "sync" /\ coord = "prepared"
    /\ initial_system' = [initial_system EXCEPT !.normal_radiance = TRUE]
    /\ calls' = Called(<<"prep_surface_params">>)
    /\ Dispatch({"passband", "left_bandwidth", "right_bandwidth", "atlas", "position_method"})
    /\ UNCHANGED <<cmode, phases, widx, wcurves, wrad, werr, curve, cerror,
                   build_distance, loopops, processed, done_order>>
    /\ UNCHANGED <<morphVars, atmVars>>
    /\ UNCHANGED extVars

\* produce_circ_spotty_async_curves: "phases" and "position_method" are popped,
\* the clean surface points are meshed, then manage_observations.
ProduceCircSpottyAsyncCurves ==
    /\ cmode = "spotty" /\ coord = "new"
    /\ initial_system' = [initial_system EXCEPT !.surface = [c \in Components |-> "points"]]
    /\ Dispatch({"passband", "left_bandwidth", "right_bandwidth", "atlas"})
    /\ UNCHANGED <<cmode, phases, widx, wcurves, wrad, werr, curve, cerror, calls,
                   build_distance, loopops, processed, done_order>>
    /\ UNCHANGED <<morphVars, atmVars>>
    /\ UNCHANGED extVars

\* produce_circ_sync_curves_mp up to its phase loop: kwargs.pop("position_method")
\* (a KeyError when the key is not there), the positions, the blank curves.
SyncStart(b) ==
    /\ cmode = "sync" /\ wpc[b] = "ready"
    /\ IF "position_method" \in kwargs
          THEN /\ kwargs' = kwargs \ {"position_method"}
               /\ wpc' = [wpc EXCEPT ![b] = "loop"]
               /\ wcurves' = [wcurves EXCEPT ![b] = blank_curves(Len(batch(phases, b)))]
               /\ werr' = werr
          ELSE /\ kwargs' = kwargs
               /\ wpc' = [wpc EXCEPT ![b] = "raised"]
               /\ wcurves' = wcurves
               /\ werr' = [werr EXCEPT ![b] = "KeyError"]
    /\ UNCHANGED <<cmode, phases, coord, initial_system, widx, wrad, curve, cerror, calls,
                   build_distance, loopops, processed, done_order>>
    /\ UNCHANGED <<morphVars, atmVars>>
    /\ UNCHANGED extVars

\* One pass of the phase loop of produce_circ_sync_curves_mp.
SyncPosition(b) ==
    /\ cmode = "sync" /\ wpc[b] = "loop" /\ widx[b] <= Len(batch(phases, b))
    /\ LET position == batch(phases, b)[widx[b]]
           on_pos == move_sys_onpos(initial_system, position)
       IN  /\ wcurves' = [wcurves EXCEPT ![b] = curves_fn(@, widx[b], on_pos)]
           /\ processed' = processed \cup {position}
    /\ calls' = Called(sync_position_ops)
    /\ build_distance' = build_distance \cup
           (IF CountIn(sync_position_ops, "build_mesh") > 0 THEN {1} ELSE {})
    /\ loopops' = loopops \cup Range(sync_position_ops)
    /\ widx' = [widx EXCEPT ![b] = @ + 1]
    /\ UNCHANGED <<cmode, phases, coord, initial_system, kwargs, wpc, wrad, werr, curve,
                   cerror, done_order>>
    /\ UNCHANGED <<morphVars, atmVars>>
    /\ UNCHANGED extVars

\* produce_circ_spotty_async_curves_mp up to its phase loop.
SpottyStart(b) ==
    /\ cmode = "spotty" /\ wpc[b] = "ready"
    /\ wpc' = [wpc EXCEPT ![b] = "loop"]
    /\ wcurves' = [wcurves EXCEPT ![b] = blank_curves(Len(batch(phases, b)))]
    /\ wrad' = [wrad EXCEPT ![b] = 0]
    /\ UNCHANGED <<cmode, phases, coord, initial_system, kwargs, widx, werr, curve, cerror,
                   calls, build_distance, loopops, processed, done_order>>
    /\ UNCHANGED <<morphVars, atmVars>>
    /\ UNCHANGED extVars

\* One pass of the phase loop of produce_circ_spotty_async_curves_mp; the
\* reducers of the position say which components are rebuilt.
SpottyPosition(b) ==
    /\ cmode = "spotty" /\ wpc[b] = "loop" /\ widx[b] <= Len(batch(phases, b))
    /\ \E primary_reducer, secondary_reducer \in BOOLEAN :
        LET position == batch(phases, b)[widx[b]]
            require_build == IF primary_reducer /\ secondary_reducer THEN "all"
                             ELSE IF primary_reducer THEN "primary"
                             ELSE IF secondary_reducer THEN "secondary"
                             ELSE "None"
            rebuilt == Range(component_to_list(require_build))
            system == [initial_system EXCEPT
                          !.position = position,
                          !.surface = [c \in Components |->
                                          IF c \in rebuilt THEN "built" ELSE @[c]]]
            on_pos == move_sys_onpos(system, position)
        IN  /\ initial_system' = system
            /\ calls' = Called(spotty_position_ops(require_build))
            /\ build_distance' = build_distance
            /\ loopops' = loopops \cup Range(spotty_position_ops(require_build))
            /\ IF require_build = "None" /\ wrad[b] = 0
                  THEN \* normal_radiance[component] with normal_radiance None
                       /\ wpc' = [wpc EXCEPT ![b] = "raised"]
                       /\ werr' = [werr EXCEPT ![b] = "TypeError"]
                       /\ UNCHANGED <<wrad, wcurves, widx, processed>>
                  ELSE /\ wrad' = [wrad EXCEPT ![b] =
                                      IF require_build # "None" THEN position ELSE @]
                       /\ wcurves' = [wcurves EXCEPT ![b] = curves_fn(@, widx[b], on_pos)]
                       /\ widx' = [widx EXCEPT ![b] = @ + 1]
                       /\ processed' = processed \cup {position}
                       /\ UNCHANGED <<wpc, werr>>
    /\ UNCHANGED <<cmode, phases, coord, kwargs, curve, cerror, done_order>>
    /\ UNCHANGED <<morphVars, atmVars>>
    /\ UNCHANGED extVars

\* return curves (either worker).
WorkerReturn(b) ==
    /\ wpc[b] = "loop" /\ widx[b] > Len(batch(phases, b))
    /\ wpc' = [wpc EXCEPT ![b] = "done"]
    /\ done_order' = Append(done_order, b)
    /\ UNCHANGED <<cmode, phases, coord, initial_system, kwargs, widx, wcurves, wrad, werr,
                   curve, cerror, calls, build_distance, loopops, processed>>
    /\ UNCHANGED <<morphVars, atmVars>>
    /\ UNCHANGED extVars

\* manage_observations once every worker has ended: the results are taken in
\* the order of the batches, an exception of a worker is raised again, and the
\* results are handed to renormalize_async_result.
Collect ==
    /\ coord = "dispatched"
    /\ \A b \in Batches : wpc[b] \in {"off", "done", "raised"}
    /\ LET nb == n_batches(Len(phases))
           failed == { b \in 1..nb : wpc[b] = "raised" }
       IN  IF failed # {}
              THEN /\ coord' = "raised"
                   /\ cerror' = werr[CHOOSE b \in failed : \A o \in failed : b <= o]
                   /\ curve' = curve
              ELSE /\ coord' = "assembled"
                   /\ cerror' = cerror
                   /\ curve' = renormalize_async_result([b \in 1..nb |-> wcurves[b]])
    /\ UNCHANGED <<cmode, phases, initial_system, kwargs, wpc, widx, wcurves, wrad, werr,
                   calls, build_distance, loopops, processed, done_order>>
    /\ UNCHANGED <<morphVars, atmVars>>
    /\ UNCHANGED extVars

---------------------------------------------------------------------------
(* Eccentric orbits: _update_surface_in_ecc_orbits *)

SurfaceAttrs == {"points", "faces", "areas", "normals", "log_g", "temperatures"}
Distances == {"periastron", "before_apastron", "apastron", "after_apastron"}

\* What a build step of the container assigns on each component.
step_writes(step) ==
    CASE step = "build_mesh" -> {"points"}
      [] step = "build_faces" -> {"faces"}
      [] step = "build_surface_areas" -> {"areas"}
      [] step = "build_faces_orientation" -> {"normals"}
      [] step = "build_surface_gravity" -> {"log_g"}
      [] step = "build_temperature_distribution" -> {"temperatures"}

\* The container after the steps were run at the position `stamp`.
run_steps(system, steps, stamp) ==
    [a \in SurfaceAttrs |->
        IF \E i \in DOMAIN steps : a \in step_writes(steps[i]) THEN stamp ELSE system[a]]

\* The build steps _update_surface_in_ecc_orbits calls.
update_surface_steps_rebuild(new_geometry_test) == build_steps
update_surface_steps(new_geometry_test) ==
    IF new_geometry_test THEN build_steps
    ELSE <<"build_mesh", "build_surface_areas", "build_faces_orientation">>

Stamp(idx, distance) == [idx |-> idx, distance |-> distance]

\* A container fully built at the first position of the orbit.
EccInit ==
    /\ \E distance \in Distances :
          ecc_system = [a \in SurfaceAttrs |-> Stamp(0, distance)]
    /\ ecc_idx = 0
    /\ ecc_test = TRUE

EccIdle ==
    /\ ecc_system = [a \in SurfaceAttrs |-> Stamp(0, "periastron")]
    /\ ecc_idx = -1
    /\ ecc_test = TRUE

\* _update_surface_in_ecc_orbits(system, orbital_position, new_geometry_test)
\* for the next position of the orbit.
UpdateSurfaceInEccOrbits ==
    /\ ecc_idx >= 0 /\ ecc_idx < MaxPhases
    /\ \E distance \in Distances, new_geometry_test \in BOOLEAN :
          /\ ecc_system' = run_steps(ecc_system, update_surface_steps(new_geometry_test),
                                     Stamp(ecc_idx + 1, distance))
          /\ ecc_test' = new_geometry_test
    /\ ecc_idx' = ecc_idx + 1
    /\ UNCHANGED <<morphVars, atmVars, curveVars>>
    /\ UNCHANGED <<spotVars, evalVars, radVars, setVars, jsonVars, areaVars, surfVars, lagVars, resVars, swVars, remapVars, neckVars, fitVars, listVars, starVars>>

---------------------------------------------------------------------------
(* Spots: incorporate_spots_mesh and remove_overlaped_spots_by_spot_index *)

MaxSpots == 2

\* The surface along a meridian through the spots: a spot owns the points
\* within its angular radius of its centre.
SurfacePoints == 0..6
SpotChoices == [centre : {2, 3, 4}, radius : {0, 1, 2}]
SpotLists == UNION { [1..n -> SpotChoices] : n \in 0..MaxSpots }

spot_points(spot) == { x \in SurfacePoints : Abs(x - spot.centre) <= spot.radius }

\* The spots dictionary of a star given its spot list: keys 0, 1, ...
spots_dict(spot_list) == [k \in 0..(Len(spot_list) - 1) |-> spot_list[k + 1]]

\* incorporate_spots_mesh: the spots are merged in input order, each taking
\* over the points it encloses, those of earlier spots included.
owners(spots, x) == { k \in DOMAIN spots : x \in spot_points(spots[k]) }
incorporate_spots_mesh(spots) ==
    [x \in SurfacePoints |->
        IF owners(spots, x) = {} THEN -1
        ELSE CHOOSE k \in owners(spots, x) : \A o \in owners(spots, x) : o <= k]

\* The spot indices the vertices map still names.
spots_instance_indices(vmap) == { vmap[x] : x \in SurfacePoints } \ {-1}

SpotsWisely == "Spots have no pointns to continue. Please, specify spots wisely."

without(spots, spot_indices) == [k \in DOMAIN spots \ spot_indices |-> spots[k]]

remove_overlaped_spots_by_spot_index_keep_all(spots, keep_spot_indices, _raise) ==
    [raised |-> FALSE, spots |-> spots, message |-> ""]

remove_overlaped_spots_by_spot_index_late_raise(spots, keep_spot_indices, _raise) ==
    LET spot_indices_to_remove == DOMAIN spots \ keep_spot_indices
    IN  [raised |-> _raise /\ spot_indices_to_remove # {},
         spots |-> without(spots, spot_indices_to_remove),
         message |-> IF _raise /\ spot_indices_to_remove # {} THEN SpotsWisely ELSE ""]

\* StarContainer.remove_overlaped_spots_by_spot_index: what it raises and the
\* spots of the star afterwards.
remove_overlaped_spots_by_spot_index(spots, keep_spot_indices, _raise) ==
    LET all_spot_indices == DOMAIN spots
        spot_indices_to_remove == all_spot_indices \ keep_spot_indices
    IN  IF _raise /\ spot_indices_to_remove # {}
           THEN [raised |-> TRUE, spots |-> spots, message |-> SpotsWisely]
           ELSE [raised |-> FALSE, spots |-> without(spots, spot_indices_to_remove),
                 message |-> ""]

NoVertices == [x \in SurfacePoints |-> -1]

SpotInit ==
    /\ spots_input \in SpotLists
    /\ star_spots = spots_dict(spots_input)
    /\ vertices_map = NoVertices
    /\ spc = "new"
    /\ spot_error = ""
    /\ raise_flag = TRUE

SpotIdle ==
    /\ spots_input = <<>>
    /\ star_spots = spots_dict(<<>>)
    /\ vertices_map = NoVertices
    /\ spc = "off"
    /\ spot_error = ""
    /\ raise_flag = TRUE

\* incorporate_spots_mesh up to its call of the removal.
IncorporateSpotsMesh ==
    /\ spc = "new"
    /\ vertices_map' = incorporate_spots_mesh(star_spots)
    /\ spc' = "meshed"
    /\ UNCHANGED <<spots_input, star_spots, spot_error, raise_flag>>
    /\ UNCHANGED <<morphVars, atmVars, curveVars>>
    /\ UNCHANGED <<eccVars, evalVars, radVars, setVars, jsonVars, areaVars, surfVars, lagVars, resVars, swVars, remapVars, neckVars, fitVars, listVars, starVars>>

\* remove_overlaped_spots_by_spot_index(keep_spot_indices, _raise) with the
\* indices the vertices map names; _raise is True unless the caller says so.
RemoveOverlapedSpotsBySpotIndex ==
    /\ spc = "meshed"
    /\ \E _raise \in BOOLEAN :
          LET r == remove_overlaped_spots_by_spot_index(
                       star_spots, spots_instance_indices(vertices_map), _raise)
          IN  /\ raise_flag' = _raise
              /\ star_spots' = r.spots
              /\ spot_error' = r.message
              /\ spc' = IF r.raised THEN "raised" ELSE "built"
    /\ UNCHANGED <<spots_input, vertices_map>>
    /\ UNCHANGED <<morphVars, atmVars, curveVars>>
    /\ UNCHANGED <<eccVars, evalVars, radVars, setVars, jsonVars, areaVars, surfVars, lagVars, resVars, swVars, remapVars, neckVars, fitVars, listVars, starVars>>

---------------------------------------------------------------------------
(* BinarySystem._evaluate_spots and BinarySystem.solver *)

ComponentOrder == <<"primary", "secondary">>

\* What solving the equipotential gives for the two points of a spot that
\* are solved first, its centre and the first point of its first ring:
\* a regular solution this side of the neck ("ok"), no usable solution
\* ("unsolved"), or a regular solution at or past the neck ("past_neck").
PointKinds == {"ok", "unsolved", "past_neck"}
SpotKinds == { k \in [centre : PointKinds, ring : PointKinds] :
                 k.centre # "ok" => k.ring = "ok" }
SpotKindLists == UNION { [1..n -> SpotKinds] : n \in 0..MaxSpots }

\* solver_condition: neck_position is None unless the system is over-contact.
solver_condition(component, kind, morph, none_order) ==
    IF morph = "over-contact"
       THEN IF kind = "past_neck" THEN "False" ELSE "True"
       ELSE IF none_order = "TypeError" THEN "TypeError"
            ELSE IF component = "primary" THEN "False" ELSE "True"

\* solver: (solution, use) if condition(solution, ...) else (nan, False); an
\* exception of the condition is not caught.
solver(component, kind, morph, none_order) ==
    LET condition == solver_condition(component, kind, morph, none_order)
    IN  IF condition = "TypeError" THEN "TypeError"
        ELSE IF condition = "True" /\ kind # "unsolved" THEN "use"
        ELSE "no_use"

EvalInit ==
    /\ ev_morphology \in {"detached", "over-contact"}
    /\ ev_none_order \in {"TypeError", "unordered"}
    /\ ev_input \in [{"primary", "secondary"} -> SpotKindLists]
    /\ ev_spots = [c \in {"primary", "secondary"} |-> DOMAIN ev_input[c]]
    /\ ev_pc = [at |-> "loop", component |-> 1, spot |-> 1]
    /\ ev_omitted = {}
    /\ ev_error = "none"

EvalIdle ==
    /\ ev_morphology = "detached"
    /\ ev_none_order = "TypeError"
    /\ ev_input = [c \in {"primary", "secondary"} |-> <<>>]
    /\ ev_spots = [c \in {"primary", "secondary"} |-> {}]
    /\ ev_pc = [at |-> "off", component |-> 1, spot |-> 1]
    /\ ev_omitted = {}
    /\ ev_error = "none"

EvalRunning == ev_pc.at = "loop"

\* The spots of a component are done (or it has none): the next component.
NextComponent ==
    /\ EvalRunning
    /\ ev_pc.spot > Len(ev_input[ComponentOrder[ev_pc.component]])
    /\ ev_pc' = IF ev_pc.component = Len(ComponentOrder) THEN [ev_pc EXCEPT !.at = "done"]
                ELSE [ev_pc EXCEPT !.component = @ + 1, !.spot = 1]
    /\ UNCHANGED <<ev_morphology, ev_none_order, ev_input, ev_spots, ev_omitted, ev_error>>
    /\ UNCHANGED <<morphVars, atmVars, curveVars>>
    /\ UNCHANGED <<eccVars, spotVars, radVars, setVars, jsonVars, areaVars, surfVars, lagVars, resVars, swVars, remapVars, neckVars, fitVars, listVars, starVars>>

\* One pass of the loop over the spots of a component.
EvaluateSpot ==
    /\ EvalRunning
    /\ ev_pc.spot <= Len(ev_input[ComponentOrder[ev_pc.component]])
    /\ LET component == ComponentOrder[ev_pc.component]
           kinds == ev_input[component][ev_pc.spot]
           centre == solver(component, kinds.centre, ev_morphology, ev_none_order)
           ring == solver(component, kinds.ring, ev_morphology, ev_none_order)
           solved == IF centre # "use" THEN centre ELSE ring
       IN  IF solved = "TypeError"
              THEN /\ ev_pc' = [ev_pc EXCEPT !.at = "raised"]
                   /\ ev_error' = "TypeError"
                   /\ UNCHANGED <<ev_spots, ev_omitted>>
              ELSE /\ ev_pc' = [ev_pc EXCEPT !.spot = @ + 1]
                   /\ ev_error' = ev_error
                   /\ IF solved = "no_use"
                         THEN /\ ev_spots' = [ev_spots EXCEPT ![component] = @ \ {ev_pc.spot}]
                              /\ ev_omitted' = ev_omitted \cup {<<component, ev_pc.spot>>}
                         ELSE UNCHANGED <<ev_spots, ev_omitted>>
    /\ UNCHANGED <<ev_morphology, ev_none_order, ev_input>>
    /\ UNCHANGED <<morphVars, atmVars, curveVars>>
    /\ UNCHANGED <<eccVars, spotVars, radVars, setVars, jsonVars, areaVars, surfVars, lagVars, resVars, swVars, remapVars, neckVars, fitVars, listVars, starVars>>

---------------------------------------------------------------------------
(* NaiveInterpolatedAtm.radiance: the temperature lookup *)

\* The temperatures the atlas has tables for, ascending, and face temperatures
\* below, on, between and above them.
atlas_temperatures == <<3500, 3750, 4000>>
FaceTemperatures == {3400, 3500, 3600, 3750, 4000, 4100}
TemperatureArrays == UNION { [1..n -> FaceTemperatures] : n \in 1..MaxFaces }

\* validate_temperature(temperature, atlas, _raise): "ValueError", or the
\* Boolean returned.
validate_temperature(temperature, _raise) ==
    LET allowed == atlas_temperatures
        invalid == \E i \in DOMAIN temperature :
                       allowed[Len(allowed)] < temperature[i] \/ temperature[i] < allowed[1]
    IN  IF invalid THEN (IF _raise THEN "ValueError" ELSE "False") ELSE "True"

\* utils.find_surrounded_as_matrix: the neighbouring table temperatures of
\* every value, a value on the grid being its own neighbours; a value past
\* the edges of the grid is an error.
out_of_bound(look_in, look_for) ==
    \E i \in DOMAIN look_for : look_for[i] < look_in[1] \/ look_for[i] > look_in[Len(look_in)]
below(look_in, value) ==
    CHOOSE b \in Range(look_in) :
        b <= value /\ \A o \in Range(look_in) : o <= value => o <= b
above(look_in, value) ==
    CHOOSE t \in Range(look_in) :
        t >= value /\ \A o \in Range(look_in) : o >= value => o >= t
find_surrounded_as_matrix(look_in, look_for) ==
    [i \in DOMAIN look_for |->
        [bottom |-> below(look_in, look_for[i]), top |-> above(look_in, look_for[i])]]

\* compute_interpolation_weights for one face, as a fraction; nan (equal
\* neighbours) is replaced by 1.
interpolation_weight(temperature, surrounded) ==
    IF surrounded.top = surrounded.bottom THEN [n |-> 1, d |-> 1]
    ELSE [n |-> temperature - surrounded.bottom, d |-> surrounded.top - surrounded.bottom]

\* The nearest table on each side whatever the temperature.
clamped(look_in, value) ==
    IF value < look_in[1] THEN look_in[1]
    ELSE IF value > look_in[Len(look_in)] THEN look_in[Len(look_in)] ELSE value

radiance_extrapolating(temperature) ==
    [raised |-> FALSE,
     faces |-> [i \in DOMAIN temperature |->
                  LET surrounded == [bottom |-> below(atlas_temperatures,
                                                      clamped(atlas_temperatures, temperature[i])),
                                     top |-> above(atlas_temperatures,
                                                   clamped(atlas_temperatures, temperature[i]))]
                  IN  [bottom |-> surrounded.bottom, top |-> surrounded.top,
                       weight |-> interpolation_weight(temperature[i], surrounded)]]]

\* NaiveInterpolatedAtm.radiance: atm_files looks the tables up (validate_atm
\* is not called), then the spectra are interpolated at the temperatures.
radiance(temperature) ==
    IF out_of_bound(atlas_temperatures, temperature)
       THEN [raised |-> TRUE, faces |-> <<>>]
       ELSE [raised |-> FALSE,
             faces |-> [i \in DOMAIN temperature |->
                          LET surrounded ==
                                  find_surrounded_as_matrix(atlas_temperatures, temperature)[i]
                          IN  [bottom |-> surrounded.bottom, top |-> surrounded.top,
                               weight |-> interpolation_weight(temperature[i], surrounded)]]]

RadInit ==
    /\ rad_temperature \in TemperatureArrays
    /\ rad_pc = "new"
    /\ rad_result = <<>>

RadIdle ==
    /\ rad_temperature = <<>>
    /\ rad_pc = "off"
    /\ rad_result = <<>>

Radiance ==
    /\ rad_pc = "new"
    /\ LET r == radiance(rad_temperature)
       IN  /\ rad_pc' = IF r.raised THEN "raised" ELSE "returned"
           /\ rad_result' = r.faces
    /\ UNCHANGED rad_temperature
    /\ UNCHANGED <<morphVars, atmVars, curveVars>>
    /\ UNCHANGED <<eccVars, spotVars, evalVars, setVars, jsonVars, areaVars, surfVars, lagVars, resVars, swVars, remapVars, neckVars, fitVars, listVars, starVars>>

---------------------------------------------------------------------------
(* BinarySystem.eccentricity setter *)

MaxSets == 3

\* Eccentricities in hundredths: below 0, 0, inside (0, 1), 1 and above 1.
Eccentricities == {-1, 0, 25, 50, 75, 99, 100, 101}

\* The test of the setter that rejects a value.
eccentricity_rejected(eccentricity) == eccentricity < 0 \/ eccentricity > 100

SetInit ==
    /\ sys_eccentricity \in {0, 50}
    /\ set_value = sys_eccentricity
    /\ set_before = sys_eccentricity
    /\ set_raised = FALSE
    /\ set_calls = 0

SetIdle ==
    /\ sys_eccentricity = 0
    /\ set_value = 0
    /\ set_before = 0
    /\ set_raised = FALSE
    /\ set_calls = -1

SetEccentricity ==
    /\ set_calls >= 0
    /\ set_calls < MaxSets
    /\ \E eccentricity \in Eccentricities :
          /\ set_value' = eccentricity
          /\ set_before' = sys_eccentricity
          /\ IF eccentricity_rejected(eccentricity)
                THEN /\ set_raised' = TRUE
                     /\ UNCHANGED sys_eccentricity
                ELSE /\ set_raised' = FALSE
                     /\ sys_eccentricity' = eccentricity
    /\ set_calls' = set_calls + 1
    /\ UNCHANGED <<morphVars, atmVars, curveVars>>
    /\ UNCHANGED <<eccVars, spotVars, evalVars, radVars, jsonVars, areaVars, surfVars, lagVars, resVars, swVars, remapVars, neckVars, fitVars, listVars, starVars>>

---------------------------------------------------------------------------
(* validate_binary_json *)

\* A json by the parameters it carries: the two masses, mass ratio and
\* semi-major axis, and the parameters both representations need.
JsonData == [primary_mass : BOOLEAN, secondary_mass : BOOLEAN,
             mass_ratio : BOOLEAN, semi_major_axis : BOOLEAN,
             period : BOOLEAN, inclination : BOOLEAN]

\* jsonschema.validate against the two registered schemas: TRUE when no
\* ValidationError is raised.
validate_std(data) ==
    data.primary_mass /\ data.secondary_mass /\ data.period /\ data.inclination
validate_community(data) ==
    data.mass_ratio /\ data.semi_major_axis /\ data.period /\ data.inclination

validate_binary_json_any(data) ==
    LET std_valid == validate_std(data)
        community_valid == validate_community(data)
    IN  IF (~community_valid) /\ (~std_valid) THEN "ValidationError" ELSE "True"

validate_binary_json(data) ==
    LET std_valid == validate_std(data)
        community_valid == validate_community(data)
    IN  IF (~community_valid) /\ (~std_valid) THEN "ValidationError"
        ELSE IF community_valid /\ std_valid THEN "YouHaveNoIdeaError"
        ELSE "True"

JsonInit ==
    /\ vj_data \in JsonData
    /\ vj_result = "new"

JsonIdle ==
    /\ vj_data = [primary_mass |-> FALSE, secondary_mass |-> FALSE,
                  mass_ratio |-> FALSE, semi_major_axis |-> FALSE,
                  period |-> FALSE, inclination |-> FALSE]
    /\ vj_result = "off"

ValidateBinaryJson ==
    /\ vj_result = "new"
    /\ vj_result' = validate_binary_json(vj_data)
    /\ UNCHANGED vj_data
    /\ UNCHANGED <<morphVars, atmVars, curveVars>>
    /\ UNCHANGED <<eccVars, spotVars, evalVars, radVars, setVars, areaVars, surfVars, lagVars, resVars, swVars, remapVars, neckVars, fitVars, listVars, starVars>>

---------------------------------------------------------------------------
(* StarContainer.calculate_all_areas on a star with spots *)

\* Triangles by base and height, and the non-empty face lists of a built
\* star or spot.
Triangles == {<<1, 1>>, <<1, 2>>}
TriangleLists == [1..1 -> Triangles] \cup [1..2 -> Triangles]

\* utils.triangle_areas, in halves of the unit of area.
triangle_areas(tri) == [i \in DOMAIN tri |-> tri[i][1] * tri[i][2]]

\* calculate_areas of a star with spots, and of a spot.
calculate_areas(tri) == triangle_areas(tri)

SpotInstances ==
    UNION { [1..n -> [faces : TriangleLists, areas : {<<>>}]] : n \in 1..MaxSpots }

\* The loop over self.spots.items(): what it leaves in the spots and in the
\* attribute areas of the module spot.
spots_after(spots) == spots
module_after(spots, module) ==
    IF Len(spots) = 0 THEN module ELSE calculate_areas(spots[Len(spots)].faces)

AreaInit ==
    /\ ar_faces \in TriangleLists
    /\ ar_areas = <<>>
    /\ ar_spots \in SpotInstances
    /\ ar_module = <<>>
    /\ ar_pc = "built"

AreaIdle ==
    /\ ar_faces = <<>>
    /\ ar_areas = <<>>
    /\ ar_spots = <<>>
    /\ ar_module = <<>>
    /\ ar_pc = "off"

CalculateAllAreas ==
    /\ ar_pc = "built"
    /\ ar_areas' = calculate_areas(ar_faces)
    /\ ar_spots' = spots_after(ar_spots)
    /\ ar_module' = module_after(ar_spots, ar_module)
    /\ ar_pc' = "done"
    /\ UNCHANGED ar_faces
    /\ UNCHANGED <<morphVars, atmVars, curveVars>>
    /\ UNCHANGED <<eccVars, spotVars, evalVars, radVars, setVars, jsonVars, surfVars, lagVars, resVars, swVars, remapVars, neckVars, fitVars, listVars, starVars>>

---------------------------------------------------------------------------
(* build_surface_with_no_spots *)

\* The points of the base quarter, by index; over-contact systems are
\* triangulated with one more point, of the next index.
BasePoints == {0, 1, 2, 3}
base_symmetry_points_number == Cardinality(BasePoints)
Placements == {"in", "xy", "xz", "x"}
SymmetryParts == {0, 1, 2, 3}

Triples(pts) == { t \in pts \X pts \X pts : t[1] < t[2] /\ t[2] < t[3] }

\* A set of triangles as an array, in index order.
RECURSIVE as_array(_)
as_array(S) ==
    IF S = {} THEN <<>>
    ELSE LET first == CHOOSE t \in S : \A o \in S :
                          \/ t[1] < o[1]
                          \/ t[1] = o[1] /\ t[2] < o[2]
                          \/ t[1] = o[1] /\ t[2] = o[2] /\ t[3] <= o[3]
         IN  <<first>> \o as_array(S \ {first})

\* inverse_point_symmetry_matrix: the image of a base point in each of the
\* four parts of the surface; a point in a plane of symmetry is its own
\* image across that plane.
inverse_point_symmetry_matrix(points) ==
    [part \in SymmetryParts |->
        [p \in BasePoints |->
            [base |-> p,
             flip_y |-> part \in {1, 2} /\ points[p] \in {"in", "xy"},
             flip_z |-> part \in {2, 3} /\ points[p] \in {"in", "xz"}]]]

\* inv[triangles] for one row of the matrix.
take(inv, triangles) ==
    [k \in DOMAIN triangles |-> <<inv[triangles[k][1]], inv[triangles[k][2]], inv[triangles[k][3]]>>]

\* np.concatenate of equally long arrays, and np.arange, from index 0.
concatenate(arrays, n, length) ==
    [i \in 0..(n * length - 1) |-> arrays[i \div length][(i % length) + 1]]
arange(length) == [k \in 1..length |-> k - 1]

\* The triangles kept of a triangulation: none with the added point, none
\* lying in the xy or in the xz plane.
kept_triangles(morph, points, hull) ==
    LET of_base == IF morph = "over-contact"
                      THEN { t \in hull : \A j \in 1..3 : t[j] < base_symmetry_points_number }
                      ELSE hull
        y0(t) == \A j \in 1..3 : points[t[j]] \in {"xz", "x"}
        z0(t) == \A j \in 1..3 : points[t[j]] \in {"xy", "x"}
    IN  as_array({ t \in of_base : ~y0(t) /\ ~z0(t) })

face_symmetry_vector_repeat(base_symmetry_faces_number) ==
    [i \in 0..(4 * base_symmetry_faces_number - 1) |-> i \div 4]

face_symmetry_vector(base_symmetry_faces_number) ==
    concatenate([part \in 0..3 |-> arange(base_symmetry_faces_number)], 4,
                base_symmetry_faces_number)

SurfInit ==
    /\ sf_morphology \in {"detached", "over-contact"}
    /\ sf_points \in [BasePoints -> Placements]
    /\ sf_hull \in SUBSET Triples(IF sf_morphology = "over-contact"
                                     THEN BasePoints \cup {base_symmetry_points_number}
                                     ELSE BasePoints)
    /\ sf_base_faces = <<>>
    /\ sf_faces = <<>>
    /\ sf_fsv = <<>>
    /\ sf_pc = "mesh"

SurfIdle ==
    /\ sf_morphology = "detached"
    /\ sf_points = [p \in BasePoints |-> "in"]
    /\ sf_hull = {}
    /\ sf_base_faces = <<>>
    /\ sf_faces = <<>>
    /\ sf_fsv = <<>>
    /\ sf_pc = "off"

BuildSurfaceWithNoSpots ==
    /\ sf_pc = "mesh"
    /\ LET triangles == kept_triangles(sf_morphology, sf_points, sf_hull)
           base_symmetry_faces_number == Len(triangles)
           inv == inverse_point_symmetry_matrix(sf_points)
           all_triangles == [part \in SymmetryParts |-> take(inv[part], triangles)]
       IN  /\ sf_base_faces' = triangles
           /\ sf_faces' = concatenate(all_triangles, Cardinality(SymmetryParts),
                                      base_symmetry_faces_number)
           /\ sf_fsv' = face_symmetry_vector(base_symmetry_faces_number)
    /\ sf_pc' = "surface"
    /\ UNCHANGED <<sf_morphology, sf_points, sf_hull>>
    /\ UNCHANGED <<morphVars, atmVars, curveVars>>
    /\ UNCHANGED <<eccVars, spotVars, evalVars, radVars, setVars, jsonVars, areaVars, lagVars, resVars, swVars, remapVars, neckVars, fitVars, listVars, starVars>>

---------------------------------------------------------------------------
(* BinarySystem.lagrangian_points *)

\* Number of samples of the scan.
Samples == 8

\* Lengths are on an integer grid on which rounding to 5 decimals is rounding
\* to a multiple of 10 and the tolerance of the solver is one step.
PeriastronDistances == {40}

\* Roots of potential_dx for a separation d: one behind the primary (x < 0),
\* one between the centres, one behind the secondary (x > d); the two
\* about the lighter component close in on it as the mass ratio goes to 0.
RootTriples(d) ==
    { <<low, mid, high>> : low \in {-44, -45, -47}, mid \in {22, 25, 38}, high \in {42, 58, 65} }

\* fsolve ends within its tolerance of a root, not on it.
Jitter == {-1, 0, 1}

\* np.linspace(-3 d, 3 d, Samples)
xs(d) == [k \in 1..Samples |-> -3 * d + ((6 * d * (k - 1)) \div (Samples - 1))]

\* round(x, 5): the nearest multiple of 10, the even one of two equally near.
round5(x) ==
    LET r == x % 10
        down == x - r
    IN  IF r < 5 THEN down
        ELSE IF r > 5 THEN down + 10
        ELSE IF (down \div 10) % 2 = 0 THEN down ELSE down + 10

\* potential_dx raises at the centres of the components.
potential_dx_raises(x, d) == x = 0 \/ x = d

\* scipy.optimize.fsolve from x_val: the root on the side of the centres
\* x_val is on.
fsolve_root(x_val, d, roots) ==
    IF x_val < 0 THEN roots[1] ELSE IF x_val < d THEN roots[2] ELSE roots[3]

RECURSIVE sorted(_)
sorted(s) ==
    IF s = <<>> THEN <<>>
    ELSE LET k == CHOOSE j \in DOMAIN s : \A o \in DOMAIN s : s[j] <= s[o]
         IN  <<s[k]>> \o sorted([j \in 1..(Len(s) - 1) |-> IF j < k THEN s[j] ELSE s[j + 1]])

reversed(s) == [j \in DOMAIN s |-> s[Len(s) + 1 - j]]

LagInit ==
    /\ lg_d \in PeriastronDistances
    /\ lg_roots \in RootTriples(lg_d)
    /\ lg_mass_ratio \in {"below_one", "one_or_above"}
    /\ lg_i = 1
    /\ lg_points = <<>>
    /\ lg_lagrange = <<>>
    /\ lg_result = <<>>
    /\ lg_pc = "scan"

LagIdle ==
    /\ lg_d = 0
    /\ lg_roots = <<>>
    /\ lg_mass_ratio = "below_one"
    /\ lg_i = 0
    /\ lg_points = <<>>
    /\ lg_lagrange = <<>>
    /\ lg_result = <<>>
    /\ lg_pc = "off"

\* One pass of the loop over xs.
ScanSample ==
    /\ lg_pc = "scan"
    /\ lg_i <= Samples
    /\ Len(lg_lagrange) < 3
    /\ LET x_val == xs(lg_d)[lg_i]
       IN  IF potential_dx_raises(x_val, lg_d)
              THEN UNCHANGED <<lg_points, lg_lagrange>>
              ELSE \E jitter \in Jitter :
                      LET solution == fsolve_root(x_val, lg_d, lg_roots) + jitter
                      IN  IF \E j \in DOMAIN lg_points : lg_points[j] = round5(solution)
                             THEN UNCHANGED <<lg_points, lg_lagrange>>
                             ELSE /\ lg_points' = Append(lg_points, round5(solution))
                                  /\ lg_lagrange' = Append(lg_lagrange, solution)
    /\ lg_i' = lg_i + 1
    /\ UNCHANGED <<lg_d, lg_roots, lg_mass_ratio, lg_result, lg_pc>>
    /\ UNCHANGED <<morphVars, atmVars, curveVars>>
    /\ UNCHANGED <<eccVars, spotVars, evalVars, radVars, setVars, jsonVars, areaVars, surfVars, resVars, swVars, remapVars, neckVars, fitVars, listVars, starVars>>

\* The loop has ended or was left with three solutions: the sorted list is
\* returned.
ReturnLagrange ==
    /\ lg_pc = "scan"
    /\ lg_i > Samples \/ Len(lg_lagrange) = 3
    /\ lg_result' = IF lg_mass_ratio = "below_one"
                       THEN sorted(lg_lagrange) ELSE reversed(sorted(lg_lagrange))
    /\ lg_pc' = "returned"
    /\ UNCHANGED <<lg_d, lg_roots, lg_mass_ratio, lg_i, lg_points, lg_lagrange>>
    /\ UNCHANGED <<morphVars, atmVars, curveVars>>
    /\ UNCHANGED <<eccVars, spotVars, evalVars, radVars, setVars, jsonVars, areaVars, surfVars, resVars, swVars, remapVars, neckVars, fitVars, listVars, starVars>>

---------------------------------------------------------------------------
(* resolve_curve_method *)

\* Eccentricities in hundredths; of each component whether it rotates
\* synchronously and whether it has spots; whether the system pulsates.
CurveSystems ==
    [eccentricity : {-1, 0, 50, 100, 150},
     primary_synchronous : BOOLEAN, secondary_synchronous : BOOLEAN,
     primary_has_spots : BOOLEAN, secondary_has_spots : BOOLEAN,
     has_pulsations : BOOLEAN]

assynchronous_spotty_test(system) ==
    \/ ~system.primary_synchronous /\ system.primary_has_spots
    \/ ~system.secondary_synchronous /\ system.secondary_has_spots

spotty_test_eccentric(system) == system.primary_has_spots \/ system.secondary_has_spots

resolve_curve_method(system) ==
    LET is_circular == system.eccentricity = 0
        is_eccentric == 100 > system.eccentricity /\ system.eccentricity > 0
    IN  IF is_circular
           THEN (IF ~assynchronous_spotty_test(system) /\ ~system.has_pulsations
                    THEN "fn_array[0]" ELSE "fn_array[1]")
        ELSE IF is_eccentric
           THEN (IF spotty_test_eccentric(system) THEN "fn_array[2]" ELSE "fn_array[3]")
        ELSE "NotImplementedError"

ResInit ==
    /\ rs_system \in CurveSystems
    /\ rs_result = "new"

ResIdle ==
    /\ rs_system = [eccentricity |-> 0,
                    primary_synchronous |-> TRUE, secondary_synchronous |-> TRUE,
                    primary_has_spots |-> FALSE, secondary_has_spots |-> FALSE,
                    has_pulsations |-> FALSE]
    /\ rs_result = "off"

ResolveCurveMethod ==
    /\ rs_result = "new"
    /\ rs_result' = resolve_curve_method(rs_system)
    /\ UNCHANGED rs_system
    /\ UNCHANGED <<morphVars, atmVars, curveVars>>
    /\ UNCHANGED <<eccVars, spotVars, evalVars, radVars, setVars, jsonVars, areaVars, surfVars, lagVars, swVars, remapVars, neckVars, fitVars, listVars, starVars>>

---------------------------------------------------------------------------
(* produce_circ_spotty_async_curves_mp on one batch *)

\* require_build of a pass, from the reducers of the position.
require_build_of(primary_reducer, secondary_reducer) ==
    IF primary_reducer /\ secondary_reducer THEN "all"
    ELSE IF primary_reducer THEN "primary"
    ELSE IF secondary_reducer THEN "secondary"
    ELSE "None"

\* normal_radiance and ld_cfs after a pass: the values prep_surface_params
\* computes at the position when a component is rebuilt, those of the pass
\* before otherwise.
normal_radiance_at_first(require_build, previous, position) ==
    IF previous = 0 THEN position ELSE previous

normal_radiance_at(require_build, previous, position) ==
    IF require_build # "None" THEN position ELSE previous

SwInit ==
    /\ sw_batch \in PhaseArrays
    /\ sw_idx = 1
    /\ sw_system = [position |-> 0, built_at |-> [c \in Components |-> 0]]
    /\ sw_normal_radiance = 0
    /\ sw_attached = <<>>
    /\ sw_pc = "loop"

SwIdle ==
    /\ sw_batch = <<>>
    /\ sw_idx = 0
    /\ sw_system = [position |-> 0, built_at |-> [c \in Components |-> 0]]
    /\ sw_normal_radiance = 0
    /\ sw_attached = <<>>
    /\ sw_pc = "off"

\* One pass of the loop over motion_batch.
SpottyWorkerPosition ==
    /\ sw_pc = "loop" /\ sw_idx <= Len(sw_batch)
    /\ \E primary_reducer, secondary_reducer \in BOOLEAN :
        LET position == sw_batch[sw_idx]
            require_build == require_build_of(primary_reducer, secondary_reducer)
            rebuilt == Range(component_to_list(require_build))
        IN  /\ sw_system' = [position |-> position,
                             built_at |-> [c \in Components |->
                                 IF c \in rebuilt THEN position ELSE sw_system.built_at[c]]]
            /\ IF require_build = "None" /\ sw_normal_radiance = 0
                  THEN \* normal_radiance[component] with normal_radiance None
                       /\ sw_pc' = "raised"
                       /\ UNCHANGED <<sw_idx, sw_normal_radiance, sw_attached>>
                  ELSE /\ sw_normal_radiance' =
                              normal_radiance_at(require_build, sw_normal_radiance, position)
                       /\ sw_attached' = Append(sw_attached,
                              [position |-> position,
                               rebuilt |-> rebuilt,
                               recomputed |-> "prep_surface_params"
                                                 \in Range(spotty_position_ops(require_build)),
                               normal_radiance |->
                                   normal_radiance_at(require_build, sw_normal_radiance, position)])
                       /\ sw_idx' = sw_idx + 1
                       /\ UNCHANGED sw_pc
    /\ UNCHANGED sw_batch
    /\ UNCHANGED <<morphVars, atmVars, curveVars>>
    /\ UNCHANGED <<eccVars, spotVars, evalVars, radVars, setVars, jsonVars, areaVars, surfVars, lagVars, resVars, remapVars, neckVars, fitVars, listVars, starVars>>

\* return curves
SpottyWorkerReturn ==
    /\ sw_pc = "loop" /\ sw_idx > Len(sw_batch)
    /\ sw_pc' = "returned"
    /\ UNCHANGED <<sw_batch, sw_idx, sw_system, sw_normal_radiance, sw_attached>>
    /\ UNCHANGED <<morphVars, atmVars, curveVars>>
    /\ UNCHANGED <<eccVars, spotVars, evalVars, radVars, setVars, jsonVars, areaVars, surfVars, lagVars, resVars, remapVars, neckVars, fitVars, listVars, starVars>>

---------------------------------------------------------------------------
(* Remapping of the unique atmosphere containers to the faces *)

\* AtmDataContainer read from a table: its fpath and its flux column.
container_of(fpath) == [fpath |-> fpath, flux |-> <<"flux", fpath>>]

\* np.empty(..., dtype='O') / np.zeros: an entry nothing was assigned to.
Unassigned == [fpath |-> "none", flux |-> <<"flux", "none">>]

\* max(chain.from_iterable(fpaths_map.values())) + 1
total_of(map) ==
    LET indices == UNION { map[key] : key \in DOMAIN map }
    IN  (CHOOSE m \in indices : \A o \in indices : o <= m) + 1

\* for model in models: arr[fpaths_map[model.fpath]] = value(model)
RECURSIVE remap_loop(_, _, _, _)
remap_loop(arr, models, map, k) ==
    IF k > Len(models) THEN arr
    ELSE remap_loop([i \in DOMAIN arr |-> IF i \in map[models[k].fpath] THEN models[k] ELSE arr[i]],
                    models, map, k + 1)

\* A variant that fills the array in the order of delivery.
remap_unique_atm_container_to_origin_in_order(models, map) ==
    [i \in 0 .. (total_of(map) - 1) |-> models[(i % Len(models)) + 1]]

remap_unique_atm_container_to_origin(models, map) ==
    remap_loop([i \in 0 .. (total_of(map) - 1) |-> Unassigned], models, map, 1)

remap_passbanded_unique_atm_to_matrix(atm_containers, map) ==
    LET rows == remap_loop([i \in 0 .. (total_of(map) - 1) |-> Unassigned], atm_containers, map, 1)
    IN  [i \in DOMAIN rows |-> rows[i].flux]

RemapInit ==
    /\ rm_fpaths \in FaceLists
    /\ \E order \in Orderings(Range(rm_fpaths)) :
          rm_models = [k \in DOMAIN order |-> container_of(order[k])]
    /\ rm_models_arr = <<>>
    /\ rm_matrix = <<>>
    /\ rm_pc = "read"

RemapIdle ==
    /\ rm_fpaths = <<>>
    /\ rm_models = <<>>
    /\ rm_models_arr = <<>>
    /\ rm_matrix = <<>>
    /\ rm_pc = "off"

\* The containers returned by read_unique_atm_tables are remapped with its
\* fpaths_map.
Remap ==
    /\ rm_pc = "read"
    /\ rm_models_arr' = remap_unique_atm_container_to_origin(rm_models, fpaths_map(rm_fpaths))
    /\ rm_matrix' = remap_passbanded_unique_atm_to_matrix(rm_models, fpaths_map(rm_fpaths))
    /\ rm_pc' = "remapped"
    /\ UNCHANGED <<rm_fpaths, rm_models>>
    /\ UNCHANGED <<morphVars, atmVars, curveVars>>
    /\ UNCHANGED <<eccVars, spotVars, evalVars, radVars, setVars, jsonVars, areaVars, surfVars, lagVars, resVars, swVars, neckVars, fitVars, listVars, starVars>>

---------------------------------------------------------------------------
(* build_surface_with_no_spots of an over-contact system: the added point *)

\* x coordinates of points of the primary (centre at 0) and of the
\* secondary (centre at 8); the neck is between the centres.
PrimaryXs == (SUBSET {-3, 0, 3, 4}) \ {{}}
SecondaryXs == (SUBSET {4, 5, 8, 11}) \ {{}}

Max(S) == CHOOSE m \in S : \A o \in S : o <= m
MinOf(S) == CHOOSE m \in S : \A o \in S : m <= o

NoNeck == [added |-> FALSE, x |-> 0]

\* neck = np.max(points[:, 0]) if component[0] == 'primary' else np.min(points[:, 0])
neck_of(component, _component, points_x) ==
    IF component[1] = "primary" THEN Max(points_x) ELSE MinOf(points_x)

NeckInit ==
    /\ nk_component \in {"primary", "secondary", "all", "both"}
    /\ nk_points \in [primary : PrimaryXs, secondary : SecondaryXs]
    /\ nk_idx = 1
    /\ nk_neck = [c \in Components |-> NoNeck]

NeckIdle ==
    /\ nk_component = "None"
    /\ nk_points = [primary |-> {0}, secondary |-> {8}]
    /\ nk_idx = 0
    /\ nk_neck = [c \in Components |-> NoNeck]

\* One pass of the loop over the components to build.
BuildOverContactComponent ==
    /\ nk_idx >= 1
    /\ nk_idx <= Len(component_to_list(nk_component))
    /\ LET component == component_to_list(nk_component)
           _component == component[nk_idx]
       IN  nk_neck' = [nk_neck EXCEPT ![_component] =
                          [added |-> TRUE,
                           x |-> neck_of(component, _component, nk_points[_component])]]
    /\ nk_idx' = nk_idx + 1
    /\ UNCHANGED <<nk_component, nk_points>>
    /\ UNCHANGED <<morphVars, atmVars, curveVars>>
    /\ UNCHANGED <<eccVars, spotVars, evalVars, radVars, setVars, jsonVars, areaVars, surfVars, lagVars, resVars, swVars, remapVars, fitVars, listVars, starVars>>

---------------------------------------------------------------------------
(* analytics.binary.fit: normalisation bounds *)

MaxFits == 2

FitParams == {"inclination", "argument_of_periastron"}

\* NORMALIZATION_MAP as the module defines it.
DEFAULT_NORMALIZATION_MAP ==
    [param \in FitParams |-> IF param = "inclination" THEN <<0, 180>> ELSE <<0, 360>>]

\* The records of an x0, by parameter: fixed or not, with or without
\* explicit min and max.
X0Records == [fixed : BOOLEAN, has_min : BOOLEAN, has_max : BOOLEAN]
custom_min(param) == IF param = "inclination" THEN 30 ELSE 45
custom_max(param) == IF param = "inclination" THEN 90 ELSE 270
X0s == [FitParams -> X0Records]

NotFixed(x0) == { param \in FitParams : ~x0[param].fixed }

\* serialize_param_boundaries(x0), read against the map `map`.
serialize_param_boundaries(x0, map) ==
    [param \in NotFixed(x0) |->
        <<IF x0[param].has_min THEN custom_min(param) ELSE map[param][1],
          IF x0[param].has_max THEN custom_max(param) ELSE map[param][2]>>]

\* NORMALIZATION_MAP.update(update)
update_normalization_map(map, update) ==
    [param \in DOMAIN map |-> IF param \in DOMAIN update THEN update[param] ELSE map[param]]

FitInit ==
    /\ NORMALIZATION_MAP = DEFAULT_NORMALIZATION_MAP
    /\ fit_x0 = [param \in FitParams |-> [fixed |-> TRUE, has_min |-> FALSE, has_max |-> FALSE]]
    /\ fit_boundaries = <<>>
    /\ fit_calls = 0

FitIdle ==
    /\ NORMALIZATION_MAP = DEFAULT_NORMALIZATION_MAP
    /\ fit_x0 = [param \in FitParams |-> [fixed |-> TRUE, has_min |-> FALSE, has_max |-> FALSE]]
    /\ fit_boundaries = <<>>
    /\ fit_calls = -1

FitDataInitializer ==
    /\ fit_calls >= 0
    /\ fit_calls < MaxFits
    /\ \E x0 \in X0s :
          LET boundaries == serialize_param_boundaries(x0, NORMALIZATION_MAP)
          IN  /\ fit_x0' = x0
              /\ fit_boundaries' = boundaries
              /\ NORMALIZATION_MAP' = update_normalization_map(NORMALIZATION_MAP, boundaries)
    /\ fit_calls' = fit_calls + 1
    /\ UNCHANGED <<morphVars, atmVars, curveVars>>
    /\ UNCHANGED <<eccVars, spotVars, evalVars, radVars, setVars, jsonVars, areaVars, surfVars, lagVars, resVars, swVars, remapVars, neckVars, listVars, starVars>>

---------------------------------------------------------------------------
(* binary_system.utils.component_to_list *)

MaxCalls == 3

\* The component arguments: None, the documented names, and two others.
ComponentNames == {"None", "all", "both", "primary", "secondary", "star", "Primary"}

ListInit ==
    /\ cl_components = <<>>
    /\ cl_results = <<>>

ListIdle ==
    /\ cl_components = <<"idle">>
    /\ cl_results = <<>>

ComponentToList ==
    /\ Len(cl_components) = Len(cl_results)
    /\ Len(cl_components) < MaxCalls
    /\ \E component \in ComponentNames :
          /\ cl_components' = Append(cl_components, component)
          /\ cl_results' = Append(cl_results, component_to_list(component))
    /\ UNCHANGED <<morphVars, atmVars, curveVars>>
    /\ UNCHANGED <<eccVars, spotVars, evalVars, radVars, setVars, jsonVars, areaVars, surfVars, lagVars, resVars, swVars, remapVars, neckVars, fitVars, starVars>>

---------------------------------------------------------------------------
(* engine.star.Star: the gravity_darkening property *)

\* Values in hundredths.
GravityDarkenings == {-10, 0, 25, 50, 100, 110}
BackwardRadii == {30, 40, 70}

\* The test of the gravity_darkening setter.
gravity_darkening_accepted(gravity_darkening) ==
    0 <= gravity_darkening /\ gravity_darkening <= 100

\* The gravity_darkening getter on a star with the given private attributes.
gravity_darkening_getter(_backward_radius, _gravity_darkening) == _backward_radius

StarInit ==
    /\ st_backward_radius = <<>>
    /\ st_gravity_darkening = <<>>
    /\ st_gravity_darkenings = <<>>
    /\ st_accepted = <<>>
    /\ st_read = <<>>
    /\ st_outcome = "constructed"

StarIdle ==
    /\ st_backward_radius = <<>>
    /\ st_gravity_darkening = <<>>
    /\ st_gravity_darkenings = <<>>
    /\ st_accepted = <<>>
    /\ st_read = <<>>
    /\ st_outcome = "idle"

SetBackwardRadius ==
    /\ st_outcome # "idle"
    /\ \E backward_radius \in BackwardRadii :
          st_backward_radius' = <<backward_radius>>
    /\ st_outcome' = "backward_radius set"
    /\ UNCHANGED <<st_gravity_darkening, st_gravity_darkenings, st_accepted, st_read>>
    /\ UNCHANGED <<morphVars, atmVars, curveVars>>
    /\ UNCHANGED <<eccVars, spotVars, evalVars, radVars, setVars, jsonVars, areaVars, surfVars, lagVars, resVars, swVars, remapVars, neckVars, fitVars, listVars>>

SetGravityDarkening ==
    /\ st_outcome # "idle"
    /\ \E gravity_darkening \in GravityDarkenings :
          IF gravity_darkening_accepted(gravity_darkening)
          THEN /\ st_gravity_darkenings' = <<gravity_darkening>>
               /\ st_accepted' = <<gravity_darkening>>
               /\ st_outcome' = "gravity_darkening set"
          ELSE /\ st_outcome' = "ValueError"
               /\ UNCHANGED <<st_gravity_darkenings, st_accepted>>
    /\ UNCHANGED <<st_backward_radius, st_gravity_darkening, st_read>>
    /\ UNCHANGED <<morphVars, atmVars, curveVars>>
    /\ UNCHANGED <<eccVars, spotVars, evalVars, radVars, setVars, jsonVars, areaVars, surfVars, lagVars, resVars, swVars, remapVars, neckVars, fitVars, listVars>>

GetGravityDarkening ==
    /\ st_outcome # "idle"
    /\ st_read' = gravity_darkening_getter(st_backward_radius, st_gravity_darkening)
    /\ st_outcome' = "gravity_darkening read"
    /\ UNCHANGED <<st_backward_radius, st_gravity_darkening, st_gravity_darkenings, st_accepted>>
    /\ UNCHANGED <<morphVars, atmVars, curveVars>>
    /\ UNCHANGED <<eccVars, spotVars, evalVars, radVars, setVars, jsonVars, areaVars, surfVars, lagVars, resVars, swVars, remapVars, neckVars, fitVars, listVars>>

---------------------------------------------------------------------------
(* Specifications *)

NextMorph == Construct

InitMorph == MorphInit /\ AtmIdle /\ CurveIdle /\ EccIdle /\ SpotIdle /\ EvalIdle /\ RadIdle /\ SetIdle /\ JsonIdle /\ AreaIdle /\ SurfIdle /\ LagIdle /\ ResIdle /\ SwIdle /\ RemapIdle /\ NeckIdle /\ FitIdle /\ ListIdle /\ StarIdle

SpecMorph == InitMorph /\ [][NextMorph]_vars

NextAtm ==
    \E e \in Evals :
        \/ ReadUniqueTables(e)
        \/ StartThread(e)
        \/ Join(e)
        \/ \E t \in Threads : Get(e, t) \/ Check(e, t) \/ Read(e, t)

InitAtm == MorphIdle /\ AtmInit({"w1"}) /\ CurveIdle /\ EccIdle /\ SpotIdle /\ EvalIdle /\ RadIdle /\ SetIdle /\ JsonIdle /\ AreaIdle /\ SurfIdle /\ LagIdle /\ ResIdle /\ SwIdle /\ RemapIdle /\ NeckIdle /\ FitIdle /\ ListIdle /\ StarIdle

SpecAtm == InitAtm /\ [][NextAtm]_vars

\* The same with the scheduling of threads: the runner and every thread that
\* can take a step eventually take one.
AtmFairness ==
    /\ \A e \in Evals : WF_vars(ReadUniqueTables(e) \/ StartThread(e) \/ Join(e))
    /\ \A e \in Evals : \A t \in Threads : WF_vars(Get(e, t) \/ Check(e, t) \/ Read(e, t))

\* One evaluation whose faces need one, two or three different tables.
FairInit ==
    /\ AtmInit({"w1"})
    /\ faces["w1"] \in {<<"ck_a">>, <<"ck_a", "ck_b">>, <<"ck_a", "ck_b", "ck_c">>}

InitAtmFair == MorphIdle /\ FairInit /\ CurveIdle /\ EccIdle /\ SpotIdle /\ EvalIdle /\ RadIdle /\ SetIdle /\ JsonIdle /\ AreaIdle /\ SurfIdle /\ LagIdle /\ ResIdle /\ SwIdle /\ RemapIdle /\ NeckIdle /\ FitIdle /\ ListIdle /\ StarIdle

SpecAtmFair == InitAtmFair /\ [][NextAtm]_vars /\ AtmFairness

\* Two evaluations at the same time that both need table ck_a: "w2" for its
\* one face, "w1" for its first face (its other faces take ck_a or ck_b).
ParInit ==
    /\ AtmInit(Evals)
    /\ faces["w2"] = <<"ck_a">>
    /\ faces["w1"][1] = "ck_a"
    /\ Range(faces["w1"]) \subseteq {"ck_a", "ck_b"}

InitAtmPar == MorphIdle /\ ParInit /\ CurveIdle /\ EccIdle /\ SpotIdle /\ EvalIdle /\ RadIdle /\ SetIdle /\ JsonIdle /\ AreaIdle /\ SurfIdle /\ LagIdle /\ ResIdle /\ SwIdle /\ RemapIdle /\ NeckIdle /\ FitIdle /\ ListIdle /\ StarIdle

SpecAtmPar == InitAtmPar /\ [][NextAtm]_vars

NextCurve ==
    \/ PrepInitialSystem
    \/ ProduceCircSyncCurves
    \/ ProduceCircSpottyAsyncCurves
    \/ Collect
    \/ \E b \in Batches :
          \/ SyncStart(b)
          \/ SyncPosition(b)
          \/ SpottyStart(b)
          \/ SpottyPosition(b)
          \/ WorkerReturn(b)

\* One curve computation, circular synchronous or circular spotty asynchronous.
InitCurve == MorphIdle /\ AtmIdle /\ CurveInit /\ EccIdle /\ SpotIdle /\ EvalIdle /\ RadIdle /\ SetIdle /\ JsonIdle /\ AreaIdle /\ SurfIdle /\ LagIdle /\ ResIdle /\ SwIdle /\ RemapIdle /\ NeckIdle /\ FitIdle /\ ListIdle /\ StarIdle

SpecCurve == InitCurve /\ [][NextCurve]_vars

InitEcc == MorphIdle /\ AtmIdle /\ CurveIdle /\ EccInit /\ SpotIdle /\ EvalIdle /\ RadIdle /\ SetIdle /\ JsonIdle /\ AreaIdle /\ SurfIdle /\ LagIdle /\ ResIdle /\ SwIdle /\ RemapIdle /\ NeckIdle /\ FitIdle /\ ListIdle /\ StarIdle

NextEcc == UpdateSurfaceInEccOrbits

\* The surface of an eccentric system updated from position to position.
SpecEcc == InitEcc /\ [][NextEcc]_vars

InitSpot == MorphIdle /\ AtmIdle /\ CurveIdle /\ EccIdle /\ SpotInit /\ EvalIdle /\ RadIdle /\ SetIdle /\ JsonIdle /\ AreaIdle /\ SurfIdle /\ LagIdle /\ ResIdle /\ SwIdle /\ RemapIdle /\ NeckIdle /\ FitIdle /\ ListIdle /\ StarIdle

NextSpot == IncorporateSpotsMesh \/ RemoveOverlapedSpotsBySpotIndex

\* The spots of one star merged into its mesh.
SpecSpot == InitSpot /\ [][NextSpot]_vars

InitEval == MorphIdle /\ AtmIdle /\ CurveIdle /\ EccIdle /\ SpotIdle /\ EvalInit /\ RadIdle /\ SetIdle /\ JsonIdle /\ AreaIdle /\ SurfIdle /\ LagIdle /\ ResIdle /\ SwIdle /\ RemapIdle /\ NeckIdle /\ FitIdle /\ ListIdle /\ StarIdle

NextEval == NextComponent \/ EvaluateSpot

\* One call of BinarySystem._evaluate_spots.
SpecEval == InitEval /\ [][NextEval]_vars

InitRad == MorphIdle /\ AtmIdle /\ CurveIdle /\ EccIdle /\ SpotIdle /\ EvalIdle /\ RadInit /\ SetIdle /\ JsonIdle /\ AreaIdle /\ SurfIdle /\ LagIdle /\ ResIdle /\ SwIdle /\ RemapIdle /\ NeckIdle /\ FitIdle /\ ListIdle /\ StarIdle

NextRad == Radiance

\* One radiance evaluation, up to the interpolation in temperature.
SpecRad == InitRad /\ [][NextRad]_vars

InitSet == MorphIdle /\ AtmIdle /\ CurveIdle /\ EccIdle /\ SpotIdle /\ EvalIdle /\ RadIdle /\ SetInit /\ JsonIdle /\ AreaIdle /\ SurfIdle /\ LagIdle /\ ResIdle /\ SwIdle /\ RemapIdle /\ NeckIdle /\ FitIdle /\ ListIdle /\ StarIdle

NextSet == SetEccentricity

\* Assignments to the eccentricity of a constructed system.
SpecSet == InitSet /\ [][NextSet]_vars

InitJson == MorphIdle /\ AtmIdle /\ CurveIdle /\ EccIdle /\ SpotIdle /\ EvalIdle /\ RadIdle /\ SetIdle /\ JsonInit /\ AreaIdle /\ SurfIdle /\ LagIdle /\ ResIdle /\ SwIdle /\ RemapIdle /\ NeckIdle /\ FitIdle /\ ListIdle /\ StarIdle

NextJson == ValidateBinaryJson

\* One validation of an input json.
SpecJson == InitJson /\ [][NextJson]_vars

InitArea == MorphIdle /\ AtmIdle /\ CurveIdle /\ EccIdle /\ SpotIdle /\ EvalIdle /\ RadIdle /\ SetIdle /\ JsonIdle /\ AreaInit /\ SurfIdle /\ LagIdle /\ ResIdle /\ SwIdle /\ RemapIdle /\ NeckIdle /\ FitIdle /\ ListIdle /\ StarIdle

NextArea == CalculateAllAreas

\* The areas of a built star with spots.
SpecArea == InitArea /\ [][NextArea]_vars

InitSurf == MorphIdle /\ AtmIdle /\ CurveIdle /\ EccIdle /\ SpotIdle /\ EvalIdle /\ RadIdle /\ SetIdle /\ JsonIdle /\ AreaIdle /\ SurfInit /\ LagIdle /\ ResIdle /\ SwIdle /\ RemapIdle /\ NeckIdle /\ FitIdle /\ ListIdle /\ StarIdle

NextSurf == BuildSurfaceWithNoSpots

\* The faces of one component without spots, built from its mesh.
SpecSurf == InitSurf /\ [][NextSurf]_vars

InitLag == MorphIdle /\ AtmIdle /\ CurveIdle /\ EccIdle /\ SpotIdle /\ EvalIdle /\ RadIdle /\ SetIdle /\ JsonIdle /\ AreaIdle /\ SurfIdle /\ LagInit /\ ResIdle /\ SwIdle /\ RemapIdle /\ NeckIdle /\ FitIdle /\ ListIdle /\ StarIdle

NextLag == ScanSample \/ ReturnLagrange

\* One search for the Lagrangian points.
SpecLag == InitLag /\ [][NextLag]_vars

InitRes == MorphIdle /\ AtmIdle /\ CurveIdle /\ EccIdle /\ SpotIdle /\ EvalIdle /\ RadIdle /\ SetIdle /\ JsonIdle /\ AreaIdle /\ SurfIdle /\ LagIdle /\ ResInit /\ SwIdle /\ RemapIdle /\ NeckIdle /\ FitIdle /\ ListIdle /\ StarIdle

NextRes == ResolveCurveMethod

\* One choice of the function that computes a curve.
SpecRes == InitRes /\ [][NextRes]_vars

InitSw == MorphIdle /\ AtmIdle /\ CurveIdle /\ EccIdle /\ SpotIdle /\ EvalIdle /\ RadIdle /\ SetIdle /\ JsonIdle /\ AreaIdle /\ SurfIdle /\ LagIdle /\ ResIdle /\ SwInit /\ RemapIdle /\ NeckIdle /\ FitIdle /\ ListIdle /\ StarIdle

NextSw == SpottyWorkerPosition \/ SpottyWorkerReturn

\* The spotty asynchronous worker on one batch of positions.
SpecSw == InitSw /\ [][NextSw]_vars

InitRemap == MorphIdle /\ AtmIdle /\ CurveIdle /\ EccIdle /\ SpotIdle /\ EvalIdle /\ RadIdle /\ SetIdle /\ JsonIdle /\ AreaIdle /\ SurfIdle /\ LagIdle /\ ResIdle /\ SwIdle /\ RemapInit /\ NeckIdle /\ FitIdle /\ ListIdle /\ StarIdle

NextRemap == Remap

\* The containers of one evaluation, read in any order, remapped to its faces.
SpecRemap == InitRemap /\ [][NextRemap]_vars

InitNeck == MorphIdle /\ AtmIdle /\ CurveIdle /\ EccIdle /\ SpotIdle /\ EvalIdle /\ RadIdle /\ SetIdle /\ JsonIdle /\ AreaIdle /\ SurfIdle /\ LagIdle /\ ResIdle /\ SwIdle /\ RemapIdle /\ NeckInit /\ FitIdle /\ ListIdle /\ StarIdle

NextNeck == BuildOverContactComponent

\* The point added to each component of an over-contact system.
SpecNeck == InitNeck /\ [][NextNeck]_vars

InitFit == MorphIdle /\ AtmIdle /\ CurveIdle /\ EccIdle /\ SpotIdle /\ EvalIdle /\ RadIdle /\ SetIdle /\ JsonIdle /\ AreaIdle /\ SurfIdle /\ LagIdle /\ ResIdle /\ SwIdle /\ RemapIdle /\ NeckIdle /\ FitInit /\ ListIdle /\ StarIdle

NextFit == FitDataInitializer

\* The fits initialised one after another in one process.
SpecFit == InitFit /\ [][NextFit]_vars

InitList == MorphIdle /\ AtmIdle /\ CurveIdle /\ EccIdle /\ SpotIdle /\ EvalIdle /\ RadIdle /\ SetIdle /\ JsonIdle /\ AreaIdle /\ SurfIdle /\ LagIdle /\ ResIdle /\ SwIdle /\ RemapIdle /\ NeckIdle /\ FitIdle /\ ListInit /\ StarIdle

NextList == ComponentToList

\* Calls of component_to_list, one after another.
SpecList == InitList /\ [][NextList]_vars

InitStar == MorphIdle /\ AtmIdle /\ CurveIdle /\ EccIdle /\ SpotIdle /\ EvalIdle /\ RadIdle /\ SetIdle /\ JsonIdle /\ AreaIdle /\ SurfIdle /\ LagIdle /\ ResIdle /\ SwIdle /\ RemapIdle /\ NeckIdle /\ FitIdle /\ ListIdle /\ StarInit

NextStar == SetBackwardRadius \/ SetGravityDarkening \/ GetGravityDarkening

\* Assignments to and reads of the properties of one Star.
SpecStar == InitStar /\ [][NextStar]_vars

---------------------------------------------------------------------------
(* Properties of the morphology classifier (SpecMorph) *)

Labels == {"detached", "semi-detached", "over-contact", "double-contact"}

Classified == bpc # "new"

SyncCircular == IsSyncCircular(bs.case)

\* The filling factors of the system under construction.
Pf == filling_factor(bs.case, bs.Omega1)
Sf == filling_factor(bs.case, bs.Omega2)

\* 0 < f <= 1
InContact(f) == GtZero(f) /\ ~GtOne(f)

\* |pff - sff| > 1e-8, and |Omega1 - Omega2| > 1e-8
FactorsDiffer == FracGtPrec(Abs(Pf.n - Sf.n), Pf.d)
PotentialsDiffer == FracGtPrec(Abs(bs.Omega1 - bs.Omega2), UnitsPerOne)

\* C1: whenever construction completes without raising, the morphology is one
\* of the four labels (the classifier never leaves it undefined).
C1_MorphologyIsLabel == bpc = "built" => morphology \in Labels

\* C2: a synchronous circular system with both filling factors in (0, 1]
\* whose potentials (filling factors) differ by more than 1e-8 is rejected,
\* whichever component has the larger filling factor.
C2_UnequalContactRejected ==
    (Classified /\ SyncCircular /\ InContact(Pf) /\ InContact(Sf)
        /\ FactorsDiffer /\ PotentialsDiffer)
    => bpc = "raised"

\* C3: a synchronous circular system with exactly one filling factor
\* essentially zero (|f| < 1e-8) and the other negative is classified
\* semi-detached, whichever component it is and whatever the sign of the
\* near-zero value.
C3_SemiDetached ==
    (Classified /\ SyncCircular
        /\ \/ AbsLtPrec(Pf) /\ LtZero(Sf) /\ ~AbsLtPrec(Sf)
           \/ AbsLtPrec(Sf) /\ LtZero(Pf) /\ ~AbsLtPrec(Pf))
    => (bpc = "built" /\ morphology = "semi-detached")

\* C4 as stated: a synchronous circular system with both filling factors in
\* (0, 1] and surface potentials equal within 1e-8 is classified over-contact.
C4_EqualPotentialsOverContact ==
    (Classified /\ SyncCircular /\ InContact(Pf) /\ InContact(Sf)
        /\ ~PotentialsDiffer)
    => (bpc = "built" /\ morphology = "over-contact")

\* C4, amended: a synchronous circular system with both filling factors in
\* (0, 1] and filling factors equal within 1e-8 is classified over-contact.
C4_EqualFactorsOverContact ==
    (Classified /\ SyncCircular /\ InContact(Pf) /\ InContact(Sf)
        /\ ~FactorsDiffer)
    => (bpc = "built" /\ morphology = "over-contact")

\* An over-contact system was built from filling factors that are not
\* identical but equal within the tolerance.
C4_Witness ==
    /\ bpc = "built" /\ SyncCircular /\ morphology = "over-contact"
    /\ InContact(Pf) /\ InContact(Sf)
    /\ ~FactorsDiffer /\ Pf.n # Sf.n

\* C5: a synchronous circular system whose two surface potentials both equal
\* the potential at L1 (both filling factors zero) is classified semi-detached.
C5_BothAtLobeSemiDetached ==
    (Classified /\ SyncCircular
        /\ bs.Omega1 = bs.case.lp1 /\ bs.Omega2 = bs.case.lp1)
    => (bpc = "built" /\ morphology = "semi-detached")

---------------------------------------------------------------------------
(* Properties of the atmosphere table reader (SpecAtm, SpecAtmPar) *)

Finished(e) == cpc[e] \in {"returned", "raised"}

\* Once a read has failed, the runner ends by raising the first error
\* recorded and hands no models to its caller.
FirstErrorRaised ==
    \A e \in Evals :
        (errlog[e] # <<>> /\ Finished(e))
        => /\ cpc[e] = "raised"
           /\ outcome[e].kind = "raised"
           /\ outcome[e].error = errlog[e][1]
           /\ outcome[e].models = {}

\* No thread completes more than one read after the first error was recorded.
AtMostCurrentRead == \A e \in Evals : \A t \in Threads : late[e][t] <= 1

\* A thread that finds the error queue non-empty starts no read.
NoReadOnceObserved ==
    \A e \in Evals : \A t \in Threads :
        (tpc[e][t] = "check" /\ error_queue[e] # <<>>) => tpc'[e][t] # "read"

\* C6: if a read fails in a reader thread the run is cancelled: every other
\* thread finishes at most the read it is doing and starts none once it sees
\* the error, the runner raises the first error recorded and returns no
\* partial results, in every interleaving.
C6_Cancellation ==
    /\ [](FirstErrorRaised /\ AtMostCurrentRead)
    /\ [][NoReadOnceObserved]_vars

\* A run was cancelled by a failed read while another thread was reading: that
\* thread finished its read, whose result was then discarded.
C6_Witness ==
    /\ cpc["w1"] = "raised"
    /\ errlog["w1"] # <<>>
    /\ outcome["w1"].error = errlog["w1"][1]
    /\ result_queue["w1"] # <<>>
    /\ \E t \in Threads : late["w1"][t] = 1

TotalReads(tab) == reads["w1"][tab] + reads["w2"][tab]

---------------------------------------------------------------------------
(* Properties of the curve computation (SpecCurve) *)

\* A step of a curve worker: a batch's worker starts, runs one pass of its
\* phase loop, raises or returns.
WorkerStep ==
    /\ coord = "dispatched" /\ coord' = "dispatched"
    /\ wpc' # wpc \/ widx' # widx

\* C7: while it processes its batch a curve worker mutates nothing it shares
\* with the other batches: the initial system container and the kwargs
\* dictionary stay exactly as they were received.
C7_WorkersMutateNothing ==
    [][WorkerStep => (kwargs' = kwargs /\ initial_system' = initial_system)]_vars

Aligned(key) ==
    /\ Len(curve[key]) = Len(phases)
    /\ \A k \in 1..Len(phases) : curve[key][k] = <<key, phases[k]>>

\* C9: the curve assembled from the workers' results has, for every label,
\* exactly one value per input phase, the k-th value being the one computed
\* at the k-th input phase, whatever order the workers ran and returned in.
C9_CurveAligned == coord = "assembled" => \A key \in crv_labels : Aligned(key)

\* A curve assembled from two batches of different sizes, the worker of the
\* second batch having returned first.
C9_Witness ==
    /\ coord = "assembled"
    /\ Len(phases) = MaxPhases
    /\ n_batches(Len(phases)) >= 2
    /\ done_order[1] = 2
    /\ \A key \in crv_labels : Aligned(key)

\* C10: in circular synchronous mode every build step has run exactly once,
\* at components_distance = 1, by the time any phase is processed, and no
\* build step and no radiance preparation is called inside the phase loop.
C10_BuildOnceThenRotate ==
    cmode = "sync" =>
        /\ processed # {} =>
              /\ \A step \in Range(build_steps) : calls[step] = 1
              /\ build_distance = {1}
        /\ loopops \cap Counted = {}

\* Two phases of a circular synchronous curve were processed after one build.
C10_Witness ==
    /\ cmode = "sync"
    /\ Cardinality(processed) >= 2
    /\ calls["build_mesh"] = 1
    /\ "apply_rotation" \in loopops

---------------------------------------------------------------------------
(* Properties of the surface update in eccentric orbits (SpecEcc) *)

\* A position handled with new_geometry_test false.
ReuseStep == ecc_idx' = ecc_idx + 1 /\ ecc_test' = FALSE

Kept(a) == ecc_system'[a] = ecc_system[a]
Recomputed(a) == ecc_system'[a].idx = ecc_idx'

---------------------------------------------------------------------------
(* Properties of the spot merge (SpecSpot) *)

SpotsDone == spc \in {"built", "raised"}

\* Spots left without a point: every point of theirs is enclosed by a later spot.
Overlapped == { k \in DOMAIN spots_dict(spots_input) :
                  k \notin spots_instance_indices(vertices_map) }

\* The first spot lies inside the second, larger one at the same centre.
SmallThenLarge ==
    /\ Len(spots_input) = 2
    /\ spots_input[1].centre = spots_input[2].centre
    /\ spots_input[1].radius < spots_input[2].radius

\* The first spot is the larger one and the second lies inside it.
LargeThenSmall ==
    /\ Len(spots_input) = 2
    /\ spots_input[1].centre = spots_input[2].centre
    /\ spots_input[1].radius > spots_input[2].radius

C13_OverlapRaisesAtomically ==
    (SpotsDone /\ raise_flag) =>
        /\ Overlapped # {} =>
              /\ spc = "raised"
              /\ spot_error = SpotsWisely
              /\ star_spots = spots_dict(spots_input)
        /\ Overlapped = {} => (spc = "built" /\ star_spots = spots_dict(spots_input))
        /\ SmallThenLarge => spc = "raised"
        /\ LargeThenSmall => spc = "built"

C13_Witness ==
    /\ spc = "raised" /\ raise_flag /\ SmallThenLarge
    /\ DOMAIN star_spots = {0, 1}

C13_WitnessUmbra == spc = "built" /\ raise_flag /\ LargeThenSmall

---------------------------------------------------------------------------
(* Properties of the spot evaluation (SpecEval) *)

\* The spots the claim says are dropped: those with a point that is not
\* solved, and in an over-contact system those with a point past the neck.
ToDrop(component) ==
    { i \in DOMAIN ev_input[component] :
        \E kind \in {ev_input[component][i].centre, ev_input[component][i].ring} :
            \/ kind = "unsolved"
            \/ kind = "past_neck" /\ ev_morphology = "over-contact" }

\* C14: the evaluation never aborts; when it is done exactly the spots whose
\* centre or first ring point is not solved or, in an over-contact system,
\* lies past the neck have been dropped from their component, each with a
\* diagnostic, and in other systems the neck predicate has rejected none.
C14_OnlyBadSpotsDropped ==
    /\ ev_pc.at # "raised"
    /\ ev_pc.at = "done" =>
          \A component \in {"primary", "secondary"} :
              /\ ev_spots[component] = DOMAIN ev_input[component] \ ToDrop(component)
              /\ \A i \in ToDrop(component) : <<component, i>> \in ev_omitted

---------------------------------------------------------------------------
(* Properties of the temperature lookup (SpecRad) *)

---------------------------------------------------------------------------
(* Properties of the eccentricity setter (SpecSet) *)

\* C16: an assignment of an eccentricity outside [0, 1), the value 1
\* included, raises, and leaves the stored eccentricity as it was.
C16_OutsideUnitIntervalRejected ==
    (set_calls > 0 /\ (set_value < 0 \/ set_value >= 100)) =>
        /\ set_raised
        /\ sys_eccentricity = set_before

---------------------------------------------------------------------------
(* Properties of validate_binary_json (SpecJson) *)

\* C17: the validation returns True exactly when one and only one of the
\* standard and community schemas validates the json, and raises when
\* neither or both do.
C17_ExactlyOneSchema ==
    vj_result \notin {"off", "new"} =>
        /\ vj_result = "True" <=> (validate_std(vj_data) # validate_community(vj_data))
        /\ (~validate_std(vj_data) /\ ~validate_community(vj_data)) =>
               vj_result = "ValidationError"
        /\ (validate_std(vj_data) /\ validate_community(vj_data)) =>
               vj_result = "YouHaveNoIdeaError"

\* A json with both masses, mass ratio and semi-major axis was refused.
C17_Witness ==
    /\ vj_result = "YouHaveNoIdeaError"
    /\ vj_data.primary_mass /\ vj_data.secondary_mass
    /\ vj_data.mass_ratio /\ vj_data.semi_major_axis

---------------------------------------------------------------------------
(* Properties of calculate_all_areas (SpecArea) *)

\* C18: after calculate_all_areas on a star with spots the star holds the
\* non-empty areas of its faces, every spot holds the non-empty areas of its
\* own faces, and nothing else has been written.
C18_StarAndSpotsCarryAreas ==
    ar_pc = "done" =>
        /\ ar_areas # <<>>
        /\ ar_areas = triangle_areas(ar_faces)
        /\ \A i \in DOMAIN ar_spots :
              /\ ar_spots[i].areas # <<>>
              /\ ar_spots[i].areas = triangle_areas(ar_spots[i].faces)
        /\ ar_module = <<>>

---------------------------------------------------------------------------
(* Properties of build_surface_with_no_spots (SpecSurf) *)

\* C19: after a surface build without spots, with B base faces, faces and
\* face_symmetry_vector have the same length, every entry of the vector is
\* in [0, B), and the face at every index i is the image, in the part of the
\* surface i lies in, of the base face the vector gives for i; in detached
\* and in over-contact systems.
C19_FaceSymmetryVector ==
    sf_pc = "surface" =>
        LET B == Len(sf_base_faces)
            inv == inverse_point_symmetry_matrix(sf_points)
        IN  /\ DOMAIN sf_faces = DOMAIN sf_fsv
            /\ DOMAIN sf_faces = 0..(4 * B - 1)
            /\ \A i \in DOMAIN sf_fsv : sf_fsv[i] >= 0 /\ sf_fsv[i] < B
            /\ \A i \in DOMAIN sf_faces :
                  \E part \in SymmetryParts :
                      sf_faces[i] = take(inv[part], <<sf_base_faces[sf_fsv[i] + 1]>>)[1]

\* An over-contact component was built with two base faces, one triangle
\* with the added point having been dropped.
C19_Witness ==
    /\ sf_pc = "surface"
    /\ sf_morphology = "over-contact"
    /\ Len(sf_base_faces) = 2
    /\ \E t \in sf_hull : t[3] = base_symmetry_points_number

\* A detached component was built with three base faces, one triangle in a
\* plane of symmetry having been dropped.
C19_WitnessDetached ==
    /\ sf_pc = "surface"
    /\ sf_morphology = "detached"
    /\ Len(sf_base_faces) = 3
    /\ Cardinality(sf_hull) = 4

---------------------------------------------------------------------------
(* Properties of lagrangian_points (SpecLag) *)

\* C20: lagrangian_points returns exactly three x-values, pairwise distinct
\* after rounding to 5 decimals, in the order (L3, L1, L2): the middle one
\* strictly between the centres of the components, the other two outside
\* the segment joining the centres, whatever the mass ratio.
C20_ThreeOrderedPoints ==
    lg_pc = "returned" =>
        /\ Len(lg_result) = 3
        /\ \A j, k \in DOMAIN lg_result : j # k => round5(lg_result[j]) # round5(lg_result[k])
        /\ 0 < lg_result[2] /\ lg_result[2] < lg_d
        /\ lg_result[1] < 0 \/ lg_result[1] > lg_d
        /\ lg_result[3] < 0 \/ lg_result[3] > lg_d

---------------------------------------------------------------------------
(* Properties of resolve_curve_method (SpecRes) *)

\* C21: the function chosen is the first of fn_array for a circular system
\* with no asynchronous spotty component (pulsating systems apart), the
\* second for a circular system
\* with one, the third for an eccentric system without spots, the fourth for
\* an eccentric system with spots, and NotImplementedError is raised for an
\* eccentricity outside [0, 1).
C21_DocumentedOrder ==
    rs_result \notin {"off", "new"} =>
        LET e == rs_system.eccentricity
        IN  /\ (e = 0 /\ ~rs_system.has_pulsations /\ ~assynchronous_spotty_test(rs_system)) =>
                   rs_result = "fn_array[0]"
            /\ (e = 0 /\ assynchronous_spotty_test(rs_system)) => rs_result = "fn_array[1]"
            /\ (0 < e /\ e < 100 /\ ~spotty_test_eccentric(rs_system)) => rs_result = "fn_array[2]"
            /\ (0 < e /\ e < 100 /\ spotty_test_eccentric(rs_system)) => rs_result = "fn_array[3]"
            /\ (e < 0 \/ e >= 100) => rs_result = "NotImplementedError"

---------------------------------------------------------------------------
(* Properties of the spotty asynchronous worker (SpecSw) *)

\* C22: in a batch of the spotty asynchronous worker, radiances and limb
\* darkening are recomputed at a position exactly when a component is
\* rebuilt there and then are the values of that position; if the first
\* position of the batch rebuilds, a position that rebuilds nothing carries
\* the values of the latest earlier position that rebuilt, never unset ones.
C22_RadiancesFollowRebuilds ==
    \A k \in DOMAIN sw_attached :
        LET entry == sw_attached[k]
            rebuilds == { j \in 1..(k - 1) : sw_attached[j].rebuilt # {} }
        IN  /\ entry.recomputed <=> entry.rebuilt # {}
            /\ entry.rebuilt # {} => entry.normal_radiance = entry.position
            /\ (entry.rebuilt = {} /\ sw_attached[1].rebuilt # {}) =>
                  /\ rebuilds # {}
                  /\ entry.normal_radiance # 0
                  /\ entry.normal_radiance =
                        sw_attached[CHOOSE j \in rebuilds : \A o \in rebuilds : o <= j].position

\* Two positions rebuilt a component and the third, which rebuilt nothing,
\* was given values.
C22_Witness ==
    /\ Len(sw_attached) = 3
    /\ sw_attached[1].rebuilt # {}
    /\ sw_attached[2].rebuilt # {}
    /\ sw_attached[3].rebuilt = {}

---------------------------------------------------------------------------
(* Properties of the reader threads (SpecAtm) *)

\* The joins of the runner are over and no error was queued: the runner
\* returns result_queue.
RunnerReturns(e) ==
    /\ cpc[e] = "join"
    /\ \A t \in Threads : ThreadEnded(e, t)
    /\ error_queue[e] = <<>>

\* C23: when the runner returns after a run in which no read failed, the
\* result queue holds exactly one (index, container) for the index of every
\* path the runner was given, the container read from that path: none is
\* skipped, none read or reported twice.
C23_OneResultPerPath ==
    \A e \in Evals :
        RunnerReturns(e) =>
            LET n == Cardinality(Range(faces[e]))
            IN  /\ Len(result_queue[e]) = n
                /\ \A index \in 0 .. (n - 1) :
                      Cardinality({ i \in DOMAIN result_queue[e] :
                                       result_queue[e][i].index = index }) = 1
                /\ { result_queue[e][i].path : i \in DOMAIN result_queue[e] } = Range(faces[e])
                /\ \A tab \in Range(faces[e]) : reads[e][tab] = 1

\* The runner returns the results of three paths, delivered out of the order
\* of their indices.
C23_Witness ==
    /\ RunnerReturns("w1")
    /\ Len(result_queue["w1"]) = 3
    /\ result_queue["w1"][1].index > result_queue["w1"][2].index

\* path_queue never holds more than its maxsize, len(fpaths) + n_threads:
\* no put of the runner blocks.
NoBlockedPut ==
    \A e \in Evals : Len(path_queue[e]) <= Cardinality(Range(faces[e])) + NThreads

\* A thread about to call path_queue.get finds an item.
NoWaitOnEmpty ==
    \A e \in Evals : \A t \in Threads :
        /\ tpc[e][t] = "get" => path_queue[e] # <<>>
        /\ tpc[e][t] # "died"

\* Once the queue is filled it holds a TERMINATOR for every thread that has
\* not ended, started or not.
EnoughTerminators ==
    \A e \in Evals :
        cpc[e] \in {"start", "join"} =>
            Cardinality({ i \in DOMAIN path_queue[e] : path_queue[e][i] = TERMINATOR })
                >= Cardinality({ t \in Threads : ~ThreadEnded(e, t) })

\* C24: with or without read errors no put of the runner blocks, no live
\* reader waits on an empty path queue, a TERMINATOR remains for every
\* reader that has not ended, and so every reader ends, the joins complete
\* and the runner returns or raises.
C24_ReadersTerminate ==
    /\ [](NoBlockedPut /\ NoWaitOnEmpty /\ EnoughTerminators)
    /\ \A e \in Evals :
          cpc[e] = "idle" ~> (Finished(e) /\ \A t \in Threads : tpc[e][t] \in {"off", "done"})

\* A read failed, a reader ended on seeing the error without taking a
\* TERMINATOR, and the runner raised.
C24_Witness ==
    /\ cpc["w1"] = "raised"
    /\ errlog["w1"] # <<>>
    /\ \A t \in Threads : tpc["w1"][t] = "done"
    /\ Cardinality({ i \in DOMAIN path_queue["w1"] : path_queue["w1"][i] = TERMINATOR }) >= 1

---------------------------------------------------------------------------
(* Properties of the remapping (SpecRemap) *)

\* C25: whatever the list of per-face paths and the order in which the
\* containers were delivered, the remapped array holds at every face
\* position the container read from the file named there, the matrix its
\* flux row, and no position is left unassigned.
C25_RemappedToFaces ==
    rm_pc = "remapped" =>
        /\ DOMAIN rm_models_arr = 0 .. (Len(rm_fpaths) - 1)
        /\ DOMAIN rm_matrix = 0 .. (Len(rm_fpaths) - 1)
        /\ \A i \in 0 .. (Len(rm_fpaths) - 1) :
              /\ rm_models_arr[i] # Unassigned
              /\ rm_models_arr[i].fpath = rm_fpaths[i + 1]
              /\ rm_matrix[i] = container_of(rm_fpaths[i + 1]).flux

\* Three faces, the first and the last on one table, remapped from
\* containers delivered in the other order than the faces name them.
C25_Witness ==
    /\ rm_pc = "remapped"
    /\ Len(rm_fpaths) = 3
    /\ rm_fpaths[1] = rm_fpaths[3]
    /\ rm_fpaths[1] # rm_fpaths[2]
    /\ rm_models[1].fpath = rm_fpaths[2]

---------------------------------------------------------------------------
(* Properties of the added neck point (SpecNeck) *)

\* C26: whichever components are requested, the point added for the primary
\* is at the largest x of the primary's points and the point added for the
\* secondary at the smallest x of the secondary's points.
C26_NeckOnOwnSide ==
    /\ nk_neck["primary"].added =>
          nk_neck["primary"].x = Max(nk_points["primary"])
    /\ nk_neck["secondary"].added =>
          nk_neck["secondary"].x = MinOf(nk_points["secondary"])

---------------------------------------------------------------------------
(* Properties of the normalisation bounds (SpecFit) *)

\* C27: the bounds a fit obtains for a parameter that is not fixed and is
\* given without min (max) are the module's default min (max) of that
\* parameter, whatever fits were initialised before in the process.
C27_DefaultBoundsIndependent ==
    fit_calls > 0 =>
        \A param \in NotFixed(fit_x0) :
            /\ ~fit_x0[param].has_min =>
                  fit_boundaries[param][1] = DEFAULT_NORMALIZATION_MAP[param][1]
            /\ ~fit_x0[param].has_max =>
                  fit_boundaries[param][2] = DEFAULT_NORMALIZATION_MAP[param][2]

---------------------------------------------------------------------------
(* Properties of component_to_list (SpecList) *)

\* C28: component_to_list returns ['primary', 'secondary'] for None as well
\* as for 'all' and 'both', the one-element list for 'primary' or
\* 'secondary', and raises ValueError for any other name.
C28_NoneMeansBoth ==
    Len(cl_components) = Len(cl_results) =>
        \A i \in 1..Len(cl_results) :
            cl_results[i] =
                IF cl_components[i] \in {"None", "all", "both"}
                    THEN <<"primary", "secondary">>
                ELSE IF cl_components[i] \in {"primary", "secondary"}
                    THEN <<cl_components[i]>>
                ELSE <<"ValueError">>

---------------------------------------------------------------------------
(* Properties of Star.gravity_darkening (SpecStar) *)

\* C29: once a value v in [0, 1] has been assigned to gravity_darkening, a
\* read of gravity_darkening returns v, whatever was assigned to
\* backward_radius; an assignment outside [0, 1] raises ValueError and leaves
\* the stored value as it was.
C29_GetReturnsWhatWasSet ==
    /\ (st_outcome = "gravity_darkening read" /\ st_accepted # <<>>) =>
          st_read = st_accepted
    /\ st_gravity_darkenings = st_accepted

=============================================================================
